---- MODULE Spec2Model ----
(***************************************************************************)
(* State-machine model of the Aseprite container decoder                   *)
(* (src/src/ase/aseprite.rs, fn read) of aseprite-viewer-rust.             *)
(*                                                                         *)
(* The byte stream is fixed in the initial state; the actions follow the   *)
(* control flow of read(): the 128-byte header, the frame loop, the chunk  *)
(* loop with its rewind, and the type-specific decoders.  A Rust panic     *)
(* (slice index out of range, unimplemented!()) is the outcome "Panic".    *)
(***************************************************************************)
EXTENDS Integers, Sequences, FiniteSets, TLC

VARIABLES
    stream,        \* the bytes of the input (from: &mut T), never written
    pos,           \* from.stream_position()
    pc,            \* position of read(): "start", "frame_loop", "chunk_loop", "done"
    result,        \* "Running", "Ok", "Err" or "Panic"
    err,           \* the value carried by Err: "Unit" is the only value of (); "None" otherwise
    site,          \* which return / panic site ended read()
    header,        \* result.header, NoHeader before it is decoded
    frame_buffer,  \* the 16-byte frame_buffer, reused across iterations
    frames,        \* result.frames
    frame,         \* the frame being filled, NoFrame outside the chunk loop
    chunk_i,       \* iterations of `for _ in 0..frame.chunk_count` already run
    frame_count,   \* frame_count
    lastSpan,      \* the last chunk read: its start, size, type, the span given to the
                   \* decoder and the stream position after it
    short,         \* some read() of the chunk loop returned fewer bytes than its buffer holds
    sprite,        \* what LoadedSprite::load made of the document, NotLoaded before
    loaded_sprite,      \* UIState.loaded_sprite
    toasts,             \* UIState.toasts
    layer_list_visible, \* UIState.layer_list_visible
    desired_position,   \* UIState.desired_position
    default_position,   \* UIState.default_position
    input,         \* what the window reported to the last update
    phase          \* position of the main loop: "update", "draw" or "crashed"

uiVars == <<loaded_sprite, toasts, layer_list_visible, desired_position,
            default_position, input, phase>>

vars == <<stream, pos, pc, result, err, site, header, frame_buffer, frames,
          frame, chunk_i, frame_count, lastSpan, short, sprite, uiVars>>

(***************************************************************************)
(* Bounds of the model                                                     *)
(***************************************************************************)
\* layers in a generated layer list
MaxLayers == 3
\* deepest child level of a generated layer
MaxLevel == 2
\* number of items (frame headers, chunks, fragments) that follow the header
MaxItems == 3
\* the longest chunk span the model allocates: read() is followed up to the
\* first chunk whose size field asks for more (a misaligned size field can
\* ask for gigabytes)
MaxSpan == 64
\* the longest name of a generated layer or tag
MaxNameLen == 2
\* how many bytes a generated layer or tag chunk carries after its last name
MaxTail == 4
\* how many records a generated tag chunk holds
MaxTags == 2
\* the longest pixel buffer of a generated cel
MaxPixels == 4
\* the enumeration wire values generated are 0..MaxWire and the top four
\* values of the field's width
MaxWire == 20
\* paths in one drop on the window
MaxDropped == 2
\* toasts on screen at once: nothing is dropped while the list is full
MaxToasts == 2
\* how far, in pixels, the view is dragged away from default_position
MaxPan == 1
\* updates a "file loaded" toast lasts: 180 in ui(), shortened; the error
\* toasts last 210 and 240, shortened to one and two updates more
LOADED_TICKS == 2

(***************************************************************************)
(* Program constants                                                       *)
(***************************************************************************)
ASEPRITE_MAGIC_HEADER == 42464
ASEPRITE_MAGIC_FRAMES == 61946
ASEPRITE_LAYER_CHUNK_MAGIC == 8196
ASEPRITE_CEL_CHUNK_MAGIC == 8197
ASEPRITE_TAG_CHUNK_MAGIC == 8216
\* size_of::<AsepriteHeader>(): the fields add up to 128 and need no padding
HEADER_SIZE == 128
\* frame_buffer.reserve(16)
FRAME_HEADER_SIZE == 16
\* RawVec::MIN_NON_ZERO_CAP for one-byte elements: the least capacity a
\* growing Vec<u8> allocates
MIN_NON_ZERO_CAP == 8

(***************************************************************************)
(* Bytes and little-endian integers                                        *)
(***************************************************************************)
Byte == 0..255

Min(a, b) == IF a <= b THEN a ELSE b
Max(a, b) == IF a >= b THEN a ELSE b

Zeros(n) == [i \in 1..n |-> 0]

LE16(v) == <<v % 256, (v \div 256) % 256>>
LE32(v) == <<v % 256, (v \div 256) % 256, (v \div 65536) % 256, (v \div 16777216) % 256>>

RECURSIVE FromLeBytes(_)
\* <int>::from_le_bytes of an array
FromLeBytes(b) == IF Len(b) = 0 THEN 0 ELSE b[1] + 256 * FromLeBytes(Tail(b))

\* the value as a two's-complement integer of n bytes (i16::from_le_bytes)
Signed(n, v) == IF v >= 2 ^ (8 * n - 1) THEN v - 2 ^ (8 * n) ELSE v

\* Rust v[a..b] is defined when a <= b <= v.len(); otherwise it panics
InRange(v, a, b) == a <= b /\ b <= Len(v)
\* Rust v[a..b]
Slice(v, a, b) == SubSeq(v, a + 1, b)

\* slice_to!(uN, s): s.try_into() succeeds when s has exactly n bytes,
\* otherwise the fallback [0; n] is decoded
slice_to(n, s) == IF Len(s) = n THEN FromLeBytes(s) ELSE 0
slice_to_signed(n, s) == Signed(n, slice_to(n, s))

\* slice_cnt!(vec, from, length): vec[from..from+length].try_into().unwrap_or([0; length])
slice_cnt(v, from, length) ==
    LET s == Slice(v, from, from + length)
    IN  IF Len(s) = length THEN s ELSE Zeros(length)

\* Vec::reserve(n) on an empty Vec<u8> followed by resize(capacity(), 0):
\* the capacity is 0 for n = 0 and max(MIN_NON_ZERO_CAP, n) otherwise
ReservedLen(n) == IF n = 0 THEN 0 ELSE Max(MIN_NON_ZERO_CAP, n)

\* io::Read::read on the in-memory / regular-file stream: the number of
\* bytes that a buffer of n bytes receives at position p
ReadCount(s, p, n) == Min(n, Max(0, Len(s) - p))
\* the buffer after the read: the bytes read, then what was there before
ReadInto(s, p, buf) ==
    LET c == ReadCount(s, p, Len(buf))
    IN  SubSeq(s, p + 1, p + c) \o SubSeq(buf, c + 1, Len(buf))

(***************************************************************************)
(* Enumeration decoders (impl From<u16> / From<u8>)                        *)
(***************************************************************************)
BlendModes == <<"Normal", "Multiply", "Screen", "Overlay", "Darken", "Lighten",
                "ColorDodge", "ColorBurn", "HardLight", "SoftLight", "Difference",
                "Exclusion", "Hue", "Saturation", "Color", "Luminosity",
                "Addition", "Subtract", "Divide">>

\* mutant: a value past the last member is clamped to the last member
AsepriteBlendMode_from_Clamped(value) == BlendModes[Min(value, 18) + 1]
\* match value % 19
AsepriteBlendMode_from(value) == BlendModes[(value % 19) + 1]

AsepriteLayerType_from(value) ==
    CASE value % 3 = 0 -> "Normal"
      [] value % 3 = 1 -> "Group"
      [] value % 3 = 2 -> "Tilemap"

AsepriteCelType_from(value) ==
    CASE value % 4 = 0 -> "Raw"
      [] value % 4 = 1 -> "Linked"
      [] value % 4 = 2 -> "CompressedImage"
      [] value % 4 = 3 -> "CompressedTilemap"

AsepriteTagDirection_from(value) ==
    CASE value % 4 = 0 -> "Forward"
      [] value % 4 = 1 -> "Reverse"
      [] value % 4 = 2 -> "PingPong"
      [] value % 4 = 3 -> "PingPongReverse"

(***************************************************************************)
(* AsepriteString::read_from_bytes                                         *)
(***************************************************************************)
\* from[0..2] panics when `from` has fewer than two bytes
read_from_bytes_panics(from) == ~InRange(from, 0, 2)
\* mutant: the prefix is kept in the data
read_from_bytes_WithPrefix(from) ==
    [length |-> slice_to(2, Slice(from, 0, 2)),
     data   |-> from]
\* length is the prefix, data is everything after the prefix
read_from_bytes(from) ==
    [length |-> slice_to(2, Slice(from, 0, 2)),
     data   |-> Slice(from, 2, Len(from))]

(***************************************************************************)
(* The Decompressor: flate2::bufread::ZlibDecoder driven by read_to_end.   *)
(* Modelled for zlib streams made of stored (BTYPE = 00) deflate blocks,   *)
(* the only ones the generated inputs contain: a bad zlib header, a bad    *)
(* block type, LEN/NLEN disagreeing or a wrong Adler-32 is an error; input *)
(* that ends early ends the read with what was inflated so far.            *)
(***************************************************************************)
RECURSIVE SumBytes(_)
SumBytes(b) == IF Len(b) = 0 THEN 0 ELSE b[1] + SumBytes(Tail(b))

RECURSIVE AdlerB(_, _)
\* the second Adler-32 sum: the running first sum after each byte, added up
AdlerB(a, b) == IF Len(b) = 0 THEN 0 ELSE (a + b[1]) + AdlerB(a + b[1], Tail(b))

\* the four bytes of the zlib trailer: Adler-32 big-endian, high sum first
Adler32(b) ==
    LET lo == (1 + SumBytes(b)) % 65521
        hi == AdlerB(1, b) % 65521
    IN  <<hi \div 256, hi % 256, lo \div 256, lo % 256>>

RECURSIVE InflateBlocks(_, _)
\* z: what is left of the deflate data and trailer; out: inflated so far
InflateBlocks(z, out) ==
    IF Len(z) < 1 THEN [ok |-> TRUE, out |-> out]
    ELSE IF (z[1] \div 2) % 4 # 0 THEN [ok |-> FALSE, out |-> out]
    ELSE IF Len(z) < 5 THEN [ok |-> TRUE, out |-> out]
    ELSE LET len   == z[2] + 256 * z[3]
             nlen  == z[4] + 256 * z[5]
             avail == Min(len, Len(z) - 5)
             data  == SubSeq(z, 6, 5 + avail)
             rest  == SubSeq(z, 6 + avail, Len(z))
         IN  IF len + nlen # 65535 THEN [ok |-> FALSE, out |-> out]
             ELSE IF avail < len THEN [ok |-> TRUE, out |-> out \o data]
             ELSE IF z[1] % 2 = 0 THEN InflateBlocks(rest, out \o data)
             ELSE IF Len(rest) < 4 THEN [ok |-> TRUE, out |-> out \o data]
             ELSE [ok  |-> SubSeq(rest, 1, 4) = Adler32(out \o data),
                   out |-> out \o data]

\* mutant: the bytes are passed through as they are
Inflate_Passthrough(z) == [ok |-> TRUE, out |-> z]
\* z.read_to_end(&mut r): ok = FALSE is the Err branch
Inflate(z) ==
    IF Len(z) < 2 THEN [ok |-> TRUE, out |-> <<>>]
    ELSE IF \/ z[1] % 16 # 8
            \/ z[1] \div 16 > 7
            \/ (z[1] * 256 + z[2]) % 31 # 0
            \/ (z[2] \div 32) % 2 = 1
         THEN [ok |-> FALSE, out |-> <<>>]
         ELSE InflateBlocks(SubSeq(z, 3, Len(z)), <<>>)

\* Option<T>: None is the empty sequence, Some(v) the sequence of v
None == <<>>
Some(v) == <<v>>

(***************************************************************************)
(* Type-specific decoders.  Each yields [out, chunk]: out is "ok", or      *)
(* "panic" with the panicking site, or "err" for return Err(()).           *)
(***************************************************************************)
Panicked(why) == [out |-> "panic", site |-> why, chunk |-> None]
Failed(why)   == [out |-> "err", site |-> why, chunk |-> None]
Decoded(c)    == [out |-> "ok", site |-> "none", chunk |-> Some(c)]

\* mutant: the name runs to the end of the span for every layer kind
LayerNameEnd_Whole(data, is_tilemap) == Len(data)
\* line 458: data.len() - if is_tilemap { 4 } else { 0 }
LayerNameEnd(data, is_tilemap) == Len(data) - (IF is_tilemap THEN 4 ELSE 0)

\* ASEPRITE_LAYER_CHUNK_MAGIC arm
DecodeLayer(data) ==
    IF ~InRange(data, 8, 10) THEN Panicked("index")
    ELSE
    LET layer_type == AsepriteLayerType_from(slice_to(2, Slice(data, 8, 10)))
        is_tilemap == layer_type = "Tilemap"
        name_end   == LayerNameEnd(data, is_tilemap)
    IN  IF \/ ~InRange(data, 19, 22)
           \/ ~InRange(data, 22, name_end)
           \/ read_from_bytes_panics(Slice(data, 22, name_end))
        THEN Panicked("index")
        ELSE Decoded(
            [kind           |-> "Layer",
             flags          |-> slice_to(2, Slice(data, 6, 8)),
             child_level    |-> slice_to(2, Slice(data, 10, 12)),
             default_width  |-> slice_to(2, Slice(data, 12, 14)),
             default_height |-> slice_to(2, Slice(data, 14, 16)),
             blend_mode     |-> AsepriteBlendMode_from(slice_to(2, Slice(data, 16, 18))),
             opacity        |-> data[19],
             future         |-> slice_cnt(data, 19, 3),
             name           |-> read_from_bytes(Slice(data, 22, name_end)),
             tileset_index  |-> IF is_tilemap
                                THEN Some(slice_to(4, Slice(data, Len(data) - 4, Len(data))))
                                ELSE None,
             layer_type     |-> layer_type])

\* mutant: the Err of read_to_end is dropped
InflateFailed_Ignored(z) == FALSE
\* lines 516-519: match z.read_to_end(&mut r) { Ok(_) => (), Err(_) => return Err(()) }
InflateFailed(z) == ~z.ok

\* the fields every cel has (lines 469-491)
CelCommon(data) ==
    [kind            |-> "Cel",
     layer_index     |-> slice_to(2, Slice(data, 6, 8)),
     x_pos           |-> slice_to_signed(2, Slice(data, 8, 10)),
     y_pos           |-> slice_to_signed(2, Slice(data, 10, 12)),
     opacity         |-> data[13],
     cel_type        |-> AsepriteCelType_from(slice_to(2, Slice(data, 13, 15))),
     z_index         |-> slice_to_signed(2, Slice(data, 15, 17)),
     future          |-> slice_cnt(data, 17, 5),
     width           |-> None,
     height          |-> None,
     raw_data        |-> None,
     linked_to       |-> None,
     compressed_data |-> None]

\* mutant: the pixel buffer is cut to width * height bytes
RawPixels_ByDimensions(data) ==
    Slice(data, 26, Min(Len(data), 26 + slice_to(2, Slice(data, 22, 24))
                                        * slice_to(2, Slice(data, 24, 26))))
\* line 497: data[26..].into()
RawPixels(data) == Slice(data, 26, Len(data))

\* mutant: a linked cel also carries the dimensions of the image it links to
LinkedCel_WithSize(c, data) ==
    [c EXCEPT !.linked_to = Some(slice_to(2, Slice(data, 22, 24))),
              !.width     = Some(0),
              !.height    = Some(0)]
\* lines 501-503: AsepriteCelType::Linked sets linked_to and nothing else
LinkedCel(c, data) == [c EXCEPT !.linked_to = Some(slice_to(2, Slice(data, 22, 24)))]

\* ASEPRITE_CEL_CHUNK_MAGIC arm
DecodeCel(data) ==
    IF ~InRange(data, 17, 22) THEN Panicked("index")
    ELSE
    LET c == CelCommon(data)
    IN  CASE c.cel_type = "Raw" ->
               IF ~InRange(data, 24, 26) THEN Panicked("index")
               ELSE Decoded([c EXCEPT
                        !.width    = Some(slice_to(2, Slice(data, 22, 24))),
                        !.height   = Some(slice_to(2, Slice(data, 24, 26))),
                        !.raw_data = Some(RawPixels(data))])
          [] c.cel_type = "Linked" ->
               IF ~InRange(data, 22, 24) THEN Panicked("index")
               ELSE Decoded(LinkedCel(c, data))
          [] c.cel_type = "CompressedImage" ->
               IF ~InRange(data, 24, 26) THEN Panicked("index")
               ELSE LET z == Inflate(Slice(data, 26, Len(data)))
                    IN  IF InflateFailed(z) THEN Failed("inflate")
                        ELSE Decoded([c EXCEPT
                                 !.width           = Some(slice_to(2, Slice(data, 22, 24))),
                                 !.height          = Some(slice_to(2, Slice(data, 24, 26))),
                                 !.compressed_data = Some(Slice(data, 26, Len(data))),
                                 !.raw_data        = Some(z.out)])
          [] c.cel_type = "CompressedTilemap" -> Panicked("unimplemented")

\* mutant: the records are taken to have a fixed size
TagStride_Fixed(name_len) == 19
\* line 556: offset += 19 + name_len
TagStride(name_len) == 19 + name_len

RECURSIVE DecodeTags(_, _, _, _)
\* the body of `for _ in 0..tag_data.tag_count`, n iterations left
DecodeTags(data, n, offset, tags) ==
    IF n = 0 THEN [panic |-> FALSE, tags |-> tags]
    ELSE IF ~InRange(data, 17 + offset, 19 + offset)
         THEN [panic |-> TRUE, tags |-> tags]
    ELSE
    LET name_len == slice_to(2, Slice(data, 17 + offset, 19 + offset))
    IN  IF ~InRange(data, 17 + offset, 19 + offset + name_len)
        THEN [panic |-> TRUE, tags |-> tags]
        ELSE DecodeTags(data, n - 1, offset + TagStride(name_len), Append(tags,
                [from         |-> slice_to(2, Slice(data, offset, 2 + offset)),
                 to           |-> slice_to(2, Slice(data, 2 + offset, 4 + offset)),
                 direction    |-> AsepriteTagDirection_from(data[5 + offset]),
                 repeat_count |-> slice_to(2, Slice(data, 5 + offset, 7 + offset)),
                 reserved     |-> slice_cnt(data, 7 + offset, 6),
                 colour       |-> slice_cnt(data, 13 + offset, 3),
                 extra        |-> data[17 + offset],
                 name         |-> read_from_bytes(
                                     Slice(data, 17 + offset, 19 + offset + name_len))]))

\* ASEPRITE_TAG_CHUNK_MAGIC arm
DecodeTag(data) ==
    IF ~InRange(data, 8, 16) THEN Panicked("index")
    ELSE
    LET tag_count == slice_to(2, Slice(data, 6, 8))
        walk      == DecodeTags(data, tag_count, 16, <<>>)
    IN  IF walk.panic THEN Panicked("index")
        ELSE Decoded([kind      |-> "Tag",
                      tag_count |-> tag_count,
                      future    |-> slice_cnt(data, 8, 8),
                      tags      |-> walk.tags])

\* the fallback arm
DecodeUnknown(size, chunk_type, data) ==
    Decoded([kind |-> "Unknown", size |-> size, chunk_type |-> chunk_type, data |-> data])

\* match chunk_type { ... }
DecodeChunk(size, chunk_type, data) ==
    CASE chunk_type = ASEPRITE_LAYER_CHUNK_MAGIC -> DecodeLayer(data)
      [] chunk_type = ASEPRITE_CEL_CHUNK_MAGIC   -> DecodeCel(data)
      [] chunk_type = ASEPRITE_TAG_CHUNK_MAGIC   -> DecodeTag(data)
      [] OTHER -> DecodeUnknown(size, chunk_type, data)

(***************************************************************************)
(* Header and frame header decoding                                        *)
(***************************************************************************)
NoHeader == [decoded |-> FALSE]
NoFrame == [decoded |-> FALSE]
NoSpan == [read |-> FALSE]
NotLoaded == [out |-> "none"]

\* mutant: the single-byte fields are taken one byte early
HeaderByte_Early(h, at) == h[at]
\* lines 370, 373, 374: header[28], header[34], header[35] index from 0
HeaderByte(h, at) == h[at + 1]

\* the AsepriteHeader literal of lines 360-380
DecodeHeader(h) ==
    [decoded       |-> TRUE,
     fsize         |-> slice_to(4, Slice(h, 0, 4)),
     magic         |-> slice_to(2, Slice(h, 4, 6)),
     frames        |-> slice_to(2, Slice(h, 6, 8)),
     width         |-> slice_to(2, Slice(h, 8, 10)),
     height        |-> slice_to(2, Slice(h, 10, 12)),
     colour_depth  |-> slice_to(2, Slice(h, 12, 14)),
     flags         |-> slice_to(4, Slice(h, 14, 18)),
     speed         |-> slice_to(2, Slice(h, 18, 20)),
     zero          |-> slice_cnt(h, 20, 8),
     palette_entry |-> HeaderByte(h, 28),
     ignore        |-> slice_cnt(h, 29, 3),
     colour_count  |-> slice_to(2, Slice(h, 32, 34)),
     pixel_width   |-> HeaderByte(h, 34),
     pixel_height  |-> HeaderByte(h, 35),
     grid_xpos     |-> slice_to_signed(2, Slice(h, 36, 38)),
     grid_ypos     |-> slice_to_signed(2, Slice(h, 38, 40)),
     grid_width    |-> slice_to(2, Slice(h, 40, 42)),
     grid_height   |-> slice_to(2, Slice(h, 42, 44)),
     future        |-> slice_cnt(h, 44, 84)]

\* the AsepriteFrame literal of lines 399-407
DecodeFrame(b) ==
    [decoded        |-> TRUE,
     size           |-> slice_to(4, Slice(b, 0, 4)),
     magic          |-> slice_to(2, Slice(b, 4, 6)),
     old_chunks     |-> slice_to(2, Slice(b, 6, 8)),
     frame_duration |-> slice_to(2, Slice(b, 8, 10)),
     future         |-> slice_cnt(b, 10, 2),
     chunk_count    |-> slice_to(4, Slice(b, 12, 16)),
     chunks         |-> <<>>]

(***************************************************************************)
(* The input streams.  A stream is a header followed by up to MaxItems     *)
(* items: frame headers, chunks of each kind and size, and fragments that  *)
(* stop short.  All 32-bit fields stay below 2^31, the range of TLC's      *)
(* integers.                                                               *)
(***************************************************************************)
\* a header with the given magic and canvas width; the height is width + 1
\* (width 0 gives a canvas no validation would accept)
HeaderBytes(magic, width) ==
    LE32(300) \o LE16(magic) \o LE16(1) \o LE16(width)
    \o LE16(IF width = 0 THEN 0 ELSE width + 1) \o LE16(32)
    \o LE32(1) \o LE16(100) \o Zeros(8) \o <<7>> \o Zeros(3) \o LE16(256)
    \o <<1, 2>> \o LE16(65535) \o LE16(4) \o LE16(16) \o LE16(8) \o Zeros(84)

FrameBytes(size, magic, old, count) ==
    LE32(size) \o LE16(magic) \o LE16(old) \o LE16(120) \o <<0, 0>> \o LE32(count)

ChunkBytes(size, chunk_type, payload) == LE32(size) \o LE16(chunk_type) \o payload

\* layer-index, x, y, opacity, cel-kind, z-index, 5 reserved bytes
CelPrefix(cel_kind) ==
    LE16(0) \o LE16(1) \o LE16(65535) \o <<200>> \o LE16(cel_kind) \o LE16(0) \o Zeros(5)

Pixels == <<1, 2, 3, 4>>
\* zlib header 78 01, one final stored block holding Pixels, Adler-32
ZlibStored(p) == <<120, 1, 1>> \o LE16(Len(p)) \o LE16(65535 - Len(p)) \o p \o Adler32(p)

FrameItems == {"FG", "FB", "FO"}
ChunkItems == {"U0", "U6", "U7", "U10", "L", "L8", "CR", "CL", "CZ", "CX", "CT", "T"}
FragmentItems == {"PF3", "PC2", "PC8"}
Items == FrameItems \union ChunkItems \union FragmentItems

\* the bytes of a chunk or fragment item
PieceBytes(it) ==
    CASE it = "U0"  -> ChunkBytes(0, 8199, <<>>)
      [] it = "U6"  -> ChunkBytes(6, 8199, <<>>)
      [] it = "U7"  -> ChunkBytes(7, 8199, <<170>>)
      [] it = "U10" -> ChunkBytes(10, 8224, <<9, 8, 7, 6>>)
      [] it = "L"   -> ChunkBytes(25, ASEPRITE_LAYER_CHUNK_MAGIC,
                          LE16(1) \o LE16(0) \o LE16(0) \o LE16(0) \o LE16(0)
                          \o LE16(0) \o <<255>> \o Zeros(3) \o LE16(1) \o <<65>>)
      [] it = "L8"  -> ChunkBytes(8, ASEPRITE_LAYER_CHUNK_MAGIC, LE16(1))
      [] it = "CR"  -> ChunkBytes(30, ASEPRITE_CEL_CHUNK_MAGIC,
                          CelPrefix(0) \o LE16(1) \o LE16(1) \o Pixels)
      [] it = "CL"  -> ChunkBytes(24, ASEPRITE_CEL_CHUNK_MAGIC, CelPrefix(1) \o LE16(0))
      [] it = "CZ"  -> ChunkBytes(41, ASEPRITE_CEL_CHUNK_MAGIC,
                          CelPrefix(2) \o LE16(1) \o LE16(1) \o ZlibStored(Pixels))
      [] it = "CX"  -> ChunkBytes(28, ASEPRITE_CEL_CHUNK_MAGIC,
                          CelPrefix(2) \o LE16(1) \o LE16(1) \o <<255, 255>>)
      [] it = "CT"  -> ChunkBytes(26, ASEPRITE_CEL_CHUNK_MAGIC,
                          CelPrefix(3) \o LE16(1) \o LE16(1))
      [] it = "T"   -> ChunkBytes(36, ASEPRITE_TAG_CHUNK_MAGIC,
                          LE16(1) \o Zeros(8) \o LE16(0) \o LE16(1) \o <<2>> \o LE16(0)
                          \o Zeros(6) \o <<10, 20, 30>> \o <<0>> \o LE16(1) \o <<116>>)
      [] it = "PF3" -> SubSeq(FrameBytes(16, ASEPRITE_MAGIC_FRAMES, 0, 0), 1, 3)
      [] it = "PC2" -> <<10, 0>>
      [] it = "PC8" -> SubSeq(ChunkBytes(12, 8224, <<5, 6, 7, 8, 9, 10>>), 1, 8)

RECURSIVE FollowingChunks(_, _)
\* how many chunk or fragment items follow position i before the next frame header
FollowingChunks(items, i) ==
    IF i >= Len(items) \/ items[i + 1] \in FrameItems \/ items[i + 1] = "PF3" THEN 0
    ELSE 1 + FollowingChunks(items, i + 1)

RECURSIVE FollowingBytes(_, _)
FollowingBytes(items, i) ==
    IF i >= Len(items) \/ items[i + 1] \in FrameItems \/ items[i + 1] = "PF3" THEN 0
    ELSE Len(PieceBytes(items[i + 1])) + FollowingBytes(items, i + 1)

\* FG: a frame header that declares the chunks that follow it, with a legacy
\* count of 0; FO: one that declares one chunk more, with a legacy count of
\* 0xFFFF; FB: one whose magic is wrong
ItemBytes(items, i) ==
    LET n  == FollowingChunks(items, i)
        sz == FRAME_HEADER_SIZE + FollowingBytes(items, i)
    IN  CASE items[i] = "FG" -> FrameBytes(sz, ASEPRITE_MAGIC_FRAMES, 0, n)
          [] items[i] = "FO" -> FrameBytes(sz, ASEPRITE_MAGIC_FRAMES, 65535, n + 1)
          [] items[i] = "FB" -> FrameBytes(sz, 61947, n, n)
          [] OTHER -> PieceBytes(items[i])

RECURSIVE Render(_, _)
Render(items, i) ==
    IF i > Len(items) THEN <<>> ELSE ItemBytes(items, i) \o Render(items, i + 1)

\* nothing, one item of any kind, or a frame header followed by up to n - 1 items
ItemSeqs(n) ==
    {<<>>} \union {<<it>> : it \in Items}
    \union {<<f>> \o t : f \in FrameItems, t \in UNION {[1..k -> Items] : k \in 0..(n - 1)}}

HeaderMagics == {ASEPRITE_MAGIC_HEADER, 0, 42465}

HeaderWidths == {0, 2}

InitStreams ==
    {HeaderBytes(ASEPRITE_MAGIC_HEADER, 2) \o Render(items, 1) : items \in ItemSeqs(MaxItems)}
    \union {HeaderBytes(m, w) \o Render(items, 1) :
                m \in HeaderMagics, w \in HeaderWidths, items \in ItemSeqs(MaxItems - 1)}
    \union {SubSeq(HeaderBytes(m, 2), 1, n) : m \in HeaderMagics, n \in 0..(HEADER_SIZE - 1)}

(***************************************************************************)
(* Streams of one frame holding one generated chunk: layers by kind, name  *)
(* length and trailing bytes; tag chunks by their records' name lengths;   *)
(* cels by kind and pixel buffer, compressed ones also damaged; and one    *)
(* chunk of each kind for every generated enumeration wire value.          *)
(***************************************************************************)
NameBytes(n) == [i \in 1..n |-> 64 + i]
TailBytes(n) == [i \in 1..n |-> 100 + i]

\* a layer chunk with a name of L bytes followed by `tail` more bytes
LayerBytes(kind, blend, L, tail) ==
    ChunkBytes(24 + L + tail, ASEPRITE_LAYER_CHUNK_MAGIC,
               LE16(1) \o LE16(kind) \o LE16(0) \o LE16(0) \o LE16(0) \o LE16(blend)
               \o <<255>> \o Zeros(3) \o LE16(L) \o NameBytes(L) \o TailBytes(tail))

\* one tag record: from, to, direction, repeat, reserved, colour, extra, name
TagRecord(dir, L) ==
    LE16(L) \o LE16(L + 1) \o <<dir>> \o LE16(0) \o Zeros(6) \o <<10, 20, 30>> \o <<0>>
    \o LE16(L) \o NameBytes(L)

RECURSIVE TagRecords(_, _)
TagRecords(dir, lens) ==
    IF lens = <<>> THEN <<>> ELSE TagRecord(dir, Head(lens)) \o TagRecords(dir, Tail(lens))

\* a tag chunk with one record per entry of lens, followed by `tail` more bytes
TagBytes(dir, lens, tail) ==
    LET recs == TagRecords(dir, lens)
    IN  ChunkBytes(16 + Len(recs) + tail, ASEPRITE_TAG_CHUNK_MAGIC,
                   LE16(Len(lens)) \o Zeros(8) \o recs \o TailBytes(tail))

\* a cel chunk: the common fields, then what the kind brings
CelBytes(kind, body) ==
    ChunkBytes(22 + Len(body), ASEPRITE_CEL_CHUNK_MAGIC, CelPrefix(kind) \o body)

PixelBuffers == {[i \in 1..n |-> (37 * i) % 251] : n \in 0..MaxPixels}

\* zlib streams that are corrupt: a wrong checksum, a wrong header check, a
\* stored block whose LEN and NLEN disagree
CorruptZlib(p) ==
    LET z == ZlibStored(p)
    IN  {[z EXCEPT ![Len(z)] = (@ + 1) % 256],
         [z EXCEPT ![2] = 2],
         [z EXCEPT ![6] = (@ + 1) % 256]}

\* the corrupt streams, and the stream cut short inside its checksum
DamagedZlib(p) ==
    CorruptZlib(p) \union {SubSeq(ZlibStored(p), 1, Len(ZlibStored(p)) - 2)}

Wires16 == (0..MaxWire) \union {65532, 65533, 65534, 65535}
Wires8 == (0..MaxWire) \union {252, 253, 254, 255}

LayerKindWires == {0, 1, 2, 5}

GeneratedChunks ==
    {LayerBytes(k, 0, L, t) : k \in LayerKindWires, L \in 0..MaxNameLen, t \in 0..MaxTail}
    \union {LayerBytes(w, w, 1, 4) : w \in Wires16}
    \union {TagBytes(2, lens, t) :
                lens \in UNION {[1..n -> 0..MaxNameLen] : n \in 0..MaxTags}, t \in {0, MaxTail}}
    \union {TagBytes(w, <<1>>, 0) : w \in Wires8}
    \union {CelBytes(0, LE16(Len(p)) \o LE16(1) \o p) : p \in PixelBuffers}
    \union {CelBytes(2, LE16(Len(p)) \o LE16(1) \o ZlibStored(p)) : p \in PixelBuffers}
    \union UNION {{CelBytes(2, LE16(Len(p)) \o LE16(1) \o z) : z \in DamagedZlib(p)} :
                     p \in PixelBuffers}
    \union {CelBytes(w, LE16(4) \o LE16(1) \o ZlibStored(Pixels)) : w \in Wires16}

ChunkStreams ==
    {HeaderBytes(ASEPRITE_MAGIC_HEADER, 2)
     \o FrameBytes(FRAME_HEADER_SIZE + Len(c), ASEPRITE_MAGIC_FRAMES, 0, 1) \o c :
        c \in GeneratedChunks}

\* a header whose bytes all differ from their neighbours: byte i is
\* 37 i + 101 seed modulo 256, with the magic in place and the top bytes of
\* the two 32-bit fields below 128
PatternHeader(seed) ==
    [i \in 1..HEADER_SIZE |->
        CASE i = 5 -> ASEPRITE_MAGIC_HEADER % 256
          [] i = 6 -> ASEPRITE_MAGIC_HEADER \div 256
          [] i \in {4, 18} -> (37 * (i - 1) + 101 * seed) % 128
          [] OTHER -> (37 * (i - 1) + 101 * seed) % 256]

HeaderSeeds == {1, 2, 3}

\* a patterned header alone, and one followed by a frame without chunks
HeaderStreams ==
    {PatternHeader(seed) : seed \in HeaderSeeds}
    \union {PatternHeader(seed) \o FrameBytes(FRAME_HEADER_SIZE, ASEPRITE_MAGIC_FRAMES, 0, 0) :
                seed \in HeaderSeeds}

(***************************************************************************)
(* Streams for the presentation layer: layer lists of every shape up to    *)
(* MaxLayers layers and MaxLevel levels, in one frame or split over two,    *)
(* with or without a cel; and layers and tags whose names are and are not  *)
(* UTF-8.                                                                  *)
(***************************************************************************)
\* a visible Normal layer at the given child level
NamedLayer(level, name) ==
    ChunkBytes(24 + Len(name), ASEPRITE_LAYER_CHUNK_MAGIC,
               LE16(1) \o LE16(0) \o LE16(level) \o LE16(0) \o LE16(0) \o LE16(0)
               \o <<255>> \o Zeros(3) \o LE16(Len(name)) \o name)

RECURSIVE NamedTagRecords(_)
NamedTagRecords(names) ==
    IF names = <<>> THEN <<>>
    ELSE LE16(0) \o LE16(1) \o <<0>> \o LE16(0) \o Zeros(6) \o <<10, 20, 30>> \o <<0>>
         \o LE16(Len(Head(names))) \o Head(names) \o NamedTagRecords(Tail(names))

\* a tag chunk with one record per name
NamedTags(names) ==
    ChunkBytes(16 + Len(NamedTagRecords(names)), ASEPRITE_TAG_CHUNK_MAGIC,
               LE16(Len(names)) \o Zeros(8) \o NamedTagRecords(names))

\* a Linked cel on the layer of the given index
LinkedCelOn(layer_index) ==
    ChunkBytes(24, ASEPRITE_CEL_CHUNK_MAGIC,
               LE16(layer_index) \o LE16(1) \o LE16(65535) \o <<200>> \o LE16(1)
               \o LE16(0) \o Zeros(5) \o LE16(0))

\* a Raw cel of one pixel on the layer of the given index
RawCelOn(layer_index) ==
    ChunkBytes(30, ASEPRITE_CEL_CHUNK_MAGIC,
               LE16(layer_index) \o LE16(1) \o LE16(65535) \o <<200>> \o LE16(0)
               \o LE16(0) \o Zeros(5) \o LE16(1) \o LE16(1) \o Pixels)

RECURSIVE Concat(_)
Concat(seqs) == IF seqs = <<>> THEN <<>> ELSE Head(seqs) \o Concat(Tail(seqs))

\* a frame that declares and holds the given chunks
FrameOf(chunks) ==
    FrameBytes(FRAME_HEADER_SIZE + Len(Concat(chunks)), ASEPRITE_MAGIC_FRAMES, 0, Len(chunks))
    \o Concat(chunks)

\* the layers of a list of child levels, named A, B, C, ...
LevelLayers(levels) == [i \in 1..Len(levels) |-> NamedLayer(levels[i], <<64 + i>>)]

LevelLists == UNION {[1..k -> 0..MaxLevel] : k \in 1..MaxLayers}

\* no cel, or a cel of either kind on a layer index from 0 to one past the last
CelChoices(k) ==
    {<<>>} \union {<<LinkedCelOn(li)>> : li \in 0..k} \union {<<RawCelOn(li)>> : li \in {0, k}}

TreeStreams ==
    UNION {{HeaderBytes(ASEPRITE_MAGIC_HEADER, 2) \o FrameOf(LevelLayers(levels) \o cel) :
                cel \in CelChoices(Len(levels))} : levels \in LevelLists}
    \union {HeaderBytes(ASEPRITE_MAGIC_HEADER, 2)
            \o FrameOf(SubSeq(LevelLayers(levels), 1, 1))
            \o FrameOf(SubSeq(LevelLayers(levels), 2, Len(levels))) :
                levels \in {l \in LevelLists : Len(l) >= 2}}

\* nothing, ASCII, a two-byte and a four-byte character; a stray 0xFF, a
\* lead byte without its continuation, an overlong NUL, a surrogate
NameSamples ==
    {<<>>, <<65>>, <<195, 169>>, <<240, 159, 152, 128>>,
     <<255>>, <<195, 40>>, <<192, 128>>, <<237, 160, 128>>}

\* frame 0 holds a layer named n1; frame 1 holds a tag chunk with the tags
\* n2 and n1, then a layer named n2
NameStream(n1, n2) ==
    HeaderBytes(ASEPRITE_MAGIC_HEADER, 2)
    \o FrameOf(<<NamedLayer(0, n1)>>)
    \o FrameOf(<<NamedTags(<<n2, n1>>), NamedLayer(1, n2)>>)

NameStreams == {NameStream(n1, n2) : n1 \in NameSamples, n2 \in NameSamples}

\* a cel under a header whose colour depth is neither 32 nor 16
DepthStreams == {PatternHeader(seed) \o FrameOf(<<RawCelOn(0)>>) : seed \in HeaderSeeds}

LayerStreams == TreeStreams \union NameStreams \union DepthStreams

(***************************************************************************)
(* read()                                                                  *)
(***************************************************************************)
\* the UIState literal of ui(): nothing loaded, no toast, the rest Default
NoInput ==
    [dropped |-> <<>>, mouse |-> 0, click |-> FALSE, drag |-> <<0, 0>>,
     env |-> [build |-> "release", texture |-> TRUE]]

UiIdle ==
    /\ loaded_sprite = None
    /\ toasts = <<>>
    /\ layer_list_visible = FALSE
    /\ desired_position = <<0, 0>>
    /\ default_position = <<0, 0>>
    /\ input = NoInput
    /\ phase = "update"

\* the state before read() runs on a stream
Fresh ==
    /\ pos = 0
    /\ pc = "start"
    /\ result = "Running"
    /\ err = "None"
    /\ site = "none"
    /\ header = NoHeader
    /\ frame_buffer = <<>>
    /\ frames = <<>>
    /\ frame = NoFrame
    /\ chunk_i = 0
    /\ frame_count = 0
    /\ lastSpan = NoSpan
    /\ short = FALSE
    /\ sprite = NotLoaded
    /\ UiIdle

\* read() on a stream of one frame with one generated chunk, or on a header
\* of patterned bytes
InitChunks == stream \in (ChunkStreams \union HeaderStreams) /\ Fresh

Init ==
    /\ stream \in InitStreams
    /\ pos = 0
    /\ pc = "start"
    /\ result = "Running"
    /\ err = "None"
    /\ site = "none"
    /\ header = NoHeader
    /\ frame_buffer = <<>>
    /\ frames = <<>>
    /\ frame = NoFrame
    /\ chunk_i = 0
    /\ frame_count = 0
    /\ lastSpan = NoSpan
    /\ short = FALSE
    /\ sprite = NotLoaded
    /\ UiIdle

\* the value inside Err at each return site: read() returns Result<Aseprite, ()>,
\* and () has one value
ErrValue(why) == "Unit"

\* return Err(()) at the named site
ReturnErr(why) ==
    /\ pc' = "done"
    /\ result' = "Err"
    /\ err' = ErrValue(why)
    /\ site' = why

\* a panic unwinds out of read()
Panic(why) ==
    /\ pc' = "done"
    /\ result' = "Panic"
    /\ err' = "None"
    /\ site' = why

\* Ok(result)
ReturnOk ==
    /\ pc' = "done"
    /\ result' = "Ok"
    /\ err' = "None"
    /\ site' = "none"

\* what the caller receives: Some(document) for Ok, None otherwise
Document == IF result = "Ok" THEN Some([header |-> header, frames |-> frames]) ELSE None

\* mutant: any non-empty read passes for a header
HeaderComplete_AnyBytes(count) == count > 0
\* line 355: the header read filled the whole buffer
HeaderComplete(count) == count = HEADER_SIZE

\* mutant: only the high byte of the magic is compared
HeaderMagicOk_HighByte(magic) == magic \div 256 = ASEPRITE_MAGIC_HEADER \div 256
\* line 384
HeaderMagicOk(magic) == magic = ASEPRITE_MAGIC_HEADER

\* mutant: only the high byte of the magic is compared
FrameMagicOk_HighByte(magic) == magic \div 256 = ASEPRITE_MAGIC_FRAMES \div 256
\* line 409
FrameMagicOk(magic) == magic = ASEPRITE_MAGIC_FRAMES

\* mutant: the loop stops once it has decoded as many frames as the header declares
FrameLoopContinues_UntilDeclared(count, declared, decodedSoFar) ==
    count > 0 /\ decodedSoFar < declared
\* line 394: the while condition looks at the byte count of the read only;
\* result.header.frames and frame_count are compared at line 395 for a message
FrameLoopContinues(count, declared, decodedSoFar) == count > 0

\* mutant: the legacy 16-bit count bounds the chunk loop
ChunkLoopBound_Legacy(f) == f.old_chunks
\* line 415: for _ in 0..frame.chunk_count
ChunkLoopBound(f) == f.chunk_count

\* lines 350-390: read the header, check the byte count and the magic
ReadHeader ==
    /\ pc = "start"
    /\ LET buf   == Zeros(ReservedLen(HEADER_SIZE))
           count == ReadCount(stream, pos, Len(buf))
           h     == DecodeHeader(ReadInto(stream, pos, buf))
       IN  /\ pos' = pos + count
           /\ IF ~HeaderComplete(count)
              THEN /\ ReturnErr("header_count")
                   /\ UNCHANGED <<header, frame_buffer>>
              ELSE /\ header' = h
                   /\ IF ~HeaderMagicOk(h.magic)
                      THEN /\ ReturnErr("header_magic")
                           /\ UNCHANGED frame_buffer
                      ELSE /\ pc' = "frame_loop"
                           /\ frame_buffer' = Zeros(ReservedLen(FRAME_HEADER_SIZE))
                           /\ UNCHANGED <<result, err, site>>
    /\ UNCHANGED <<stream, frames, frame, chunk_i, frame_count, lastSpan, short>>
    /\ UNCHANGED <<sprite, uiVars>>

\* mutant: running out of bytes where a frame header would start is an error
EndOfStream_Err ==
    /\ pc = "frame_loop"
    /\ ReadCount(stream, pos, Len(frame_buffer)) = 0
    /\ ReturnErr("eof")
    /\ UNCHANGED <<stream, pos, header, frame_buffer, frames, frame, chunk_i,
                   frame_count, lastSpan, short>>
    /\ UNCHANGED <<sprite, uiVars>>

\* line 394 with the read returning 0, then line 570
EndOfStream ==
    /\ pc = "frame_loop"
    /\ ~FrameLoopContinues(ReadCount(stream, pos, Len(frame_buffer)), header.frames, frame_count)
    /\ ReturnOk
    /\ UNCHANGED <<stream, pos, header, frame_buffer, frames, frame, chunk_i,
                   frame_count, lastSpan, short>>
    /\ UNCHANGED <<sprite, uiVars>>

\* lines 394-413: a read of at least one byte, the frame literal, the magic check
ReadFrameHeader ==
    /\ pc = "frame_loop"
    /\ FrameLoopContinues(ReadCount(stream, pos, Len(frame_buffer)), header.frames, frame_count)
    /\ LET buf == ReadInto(stream, pos, frame_buffer)
           f   == DecodeFrame(buf)
       IN  /\ frame_buffer' = buf
           /\ pos' = pos + ReadCount(stream, pos, Len(frame_buffer))
           /\ IF ~FrameMagicOk(slice_to(2, Slice(buf, 4, 6)))
              THEN /\ ReturnErr("frame_magic")
                   /\ UNCHANGED <<frame, chunk_i>>
              ELSE /\ frame' = f
                   /\ chunk_i' = 0
                   /\ pc' = "chunk_loop"
                   /\ UNCHANGED <<result, err, site>>
    /\ UNCHANGED <<stream, header, frames, frame_count, lastSpan, short>>
    /\ UNCHANGED <<sprite, uiVars>>

\* mutant: the rewind goes six bytes back from the chunk's start
RewindTo_SixBack(current_position) == Max(0, current_position - 6)
\* line 440: from.seek(io::SeekFrom::Start(current_position))
RewindTo(current_position) == current_position

\* the size field (4 little-endian bytes) asks for at most MaxSpan bytes
SpanModelled(b) == b[4] = 0 /\ b[3] = 0 /\ FromLeBytes(b) <= MaxSpan

\* lines 415-563: one iteration of the chunk loop
ReadChunk ==
    /\ pc = "chunk_loop"
    /\ chunk_i < ChunkLoopBound(frame)
    /\ SpanModelled(ReadInto(stream, pos, Zeros(4)))
    /\ LET current_position == pos
           n1 == ReadCount(stream, current_position, 4)
           n2 == ReadCount(stream, current_position + n1, 2)
       IN  \E size \in {FromLeBytes(ReadInto(stream, current_position, Zeros(4)))},
              chunk_type \in {FromLeBytes(ReadInto(stream, current_position + n1, Zeros(2)))} :
           \E buf \in {Zeros(ReservedLen(size))} :
           \E data \in {ReadInto(stream, RewindTo(current_position), buf)} :
           \E d \in {DecodeChunk(size, chunk_type, data)} :
               /\ pos' = RewindTo(current_position)
                         + ReadCount(stream, RewindTo(current_position), Len(buf))
               /\ lastSpan' = [read |-> TRUE, start |-> current_position, size |-> size,
                               chunk_type |-> chunk_type, data |-> data, end |-> pos']
               /\ short' = (short \/ n1 < 4 \/ n2 < 2
                                  \/ current_position + size > Len(stream))
               /\ CASE d.out = "ok" ->
                         /\ frame' = [frame EXCEPT !.chunks = Append(@, d.chunk[1])]
                         /\ chunk_i' = chunk_i + 1
                         /\ UNCHANGED <<pc, result, err, site>>
                    [] d.out = "err" ->
                         /\ ReturnErr(d.site)
                         /\ UNCHANGED <<frame, chunk_i>>
                    [] d.out = "panic" ->
                         /\ Panic(d.site)
                         /\ UNCHANGED <<frame, chunk_i>>
    /\ UNCHANGED <<stream, header, frame_buffer, frames, frame_count>>
    /\ UNCHANGED <<sprite, uiVars>>

\* lines 566-567: the chunk loop is over
PushFrame ==
    /\ pc = "chunk_loop"
    /\ chunk_i = ChunkLoopBound(frame)
    /\ frames' = Append(frames, frame)
    /\ frame_count' = frame_count + 1
    /\ frame' = NoFrame
    /\ pc' = "frame_loop"
    /\ UNCHANGED <<stream, pos, result, err, site, header, frame_buffer, chunk_i,
                   lastSpan, short>>
    /\ UNCHANGED <<sprite, uiVars>>

(***************************************************************************)
(* LoadedSprite::load: the presentation layer's view of a document.        *)
(* Strings are their UTF-8 bytes.  What the build and the graphics device  *)
(* decide is an input: env.build is "debug" (arithmetic overflow panics)   *)
(* or "release" (it wraps), env.texture tells whether creating and filling *)
(* a texture succeeds.                                                     *)
(***************************************************************************)
\* usize::MAX, held as the largest integer of the model
NO_PARENT == 2147483647
RECURSIVE_LIMIT == 16
GAP == 4

Builds == {"debug", "release"}
Environments == [build : Builds, texture : BOOLEAN]

\* a UTF-8 continuation byte
Continuation(b) == 128 <= b /\ b <= 191

RECURSIVE Utf8Valid(_)
\* std::str::from_utf8 accepts the well-formed sequences only: no stray or
\* missing continuation bytes, no overlong forms, no surrogates, nothing
\* above U+10FFFF
Utf8Valid(b) ==
    IF b = <<>> THEN TRUE
    ELSE LET c == b[1]
             n == Len(b)
         IN  CASE c <= 127 -> Utf8Valid(Tail(b))
               [] 194 <= c /\ c <= 223 ->
                    n >= 2 /\ Continuation(b[2]) /\ Utf8Valid(SubSeq(b, 3, n))
               [] c = 224 ->
                    /\ n >= 3 /\ 160 <= b[2] /\ b[2] <= 191 /\ Continuation(b[3])
                    /\ Utf8Valid(SubSeq(b, 4, n))
               [] (225 <= c /\ c <= 236) \/ c = 238 \/ c = 239 ->
                    /\ n >= 3 /\ Continuation(b[2]) /\ Continuation(b[3])
                    /\ Utf8Valid(SubSeq(b, 4, n))
               [] c = 237 ->
                    /\ n >= 3 /\ 128 <= b[2] /\ b[2] <= 159 /\ Continuation(b[3])
                    /\ Utf8Valid(SubSeq(b, 4, n))
               [] c = 240 ->
                    /\ n >= 4 /\ 144 <= b[2] /\ b[2] <= 191
                    /\ Continuation(b[3]) /\ Continuation(b[4])
                    /\ Utf8Valid(SubSeq(b, 5, n))
               [] 241 <= c /\ c <= 243 ->
                    /\ n >= 4 /\ Continuation(b[2])
                    /\ Continuation(b[3]) /\ Continuation(b[4])
                    /\ Utf8Valid(SubSeq(b, 5, n))
               [] c = 244 ->
                    /\ n >= 4 /\ 128 <= b[2] /\ b[2] <= 143
                    /\ Continuation(b[3]) /\ Continuation(b[4])
                    /\ Utf8Valid(SubSeq(b, 5, n))
               [] OTHER -> FALSE

\* mutant: the bytes are taken for text without a look
as_str_Unchecked(name) == [ok |-> TRUE, str |-> name.data]
\* AsepriteString::as_str: Ok(the bytes as text) or Err(Utf8Error)
as_str(name) ==
    IF Utf8Valid(name.data) THEN [ok |-> TRUE, str |-> name.data]
    ELSE [ok |-> FALSE, str |-> <<>>]

RECURSIVE Decimal(_)
\* the digits of {n}
Decimal(n) == IF n < 10 THEN <<48 + n>> ELSE Decimal(n \div 10) \o <<48 + (n % 10)>>

\* format!("frame{frame_idx} chunk{chunk_idx}")
LayerPlaceholder(frame_idx, chunk_idx) ==
    <<102, 114, 97, 109, 101>> \o Decimal(frame_idx)
    \o <<32, 99, 104, 117, 110, 107>> \o Decimal(chunk_idx)

\* format!("Tag {i}")
TagPlaceholder(i) == <<84, 97, 103, 32>> \o Decimal(i)

\* flags & AsepriteLayerFlags::X > 0, for the flag of value 2^bit
HasFlag(flags, bit) == (flags \div (2 ^ bit)) % 2 = 1

\* the PreparedLayer literal
PreparedLayer(lchunk, frame_idx, chunk_idx) ==
    [child_level  |-> lchunk.child_level,
     blend_mode   |-> lchunk.blend_mode,
     opacity      |-> lchunk.opacity,
     layer_type   |-> lchunk.layer_type,
     visible      |-> HasFlag(lchunk.flags, 0),
     background   |-> HasFlag(lchunk.flags, 3),
     is_reference |-> HasFlag(lchunk.flags, 6),
     name         |-> IF as_str(lchunk.name).ok THEN as_str(lchunk.name).str
                      ELSE LayerPlaceholder(frame_idx, chunk_idx),
     full_name    |-> None,
     parent_index |-> NO_PARENT]

\* the PreparedCel literal of a Raw or CompressedImage cel; the floating
\* point rectangles are left out
TexturedCel(cel, frame_idx) ==
    [layer_index     |-> cel.layer_index,
     frame_index     |-> frame_idx,
     texture         |-> TRUE,
     linked_to_frame |-> None,
     size            |-> <<IF cel.width = None THEN 0 ELSE cel.width[1],
                           IF cel.height = None THEN 0 ELSE cel.height[1]>>,
     opacity         |-> cel.opacity]

\* the PreparedCel literal of a Linked cel
LinkedPreparedCel(cel, frame_idx, h) ==
    [layer_index     |-> cel.layer_index,
     frame_index     |-> frame_idx,
     texture         |-> FALSE,
     linked_to_frame |-> cel.linked_to,
     size            |-> <<h.width, h.height>>,
     opacity         |-> 255]

RECURSIVE PreparedTags(_, _)
\* the loop over tag.tags, i counting from 0 in every tag chunk
PreparedTags(tags, i) ==
    IF i >= Len(tags) THEN <<>>
    ELSE <<[from      |-> tags[i + 1].from,
            to        |-> tags[i + 1].to,
            direction |-> tags[i + 1].direction,
            name      |-> IF as_str(tags[i + 1].name).ok THEN as_str(tags[i + 1].name).str
                          ELSE TagPlaceholder(i)]>>
         \o PreparedTags(tags, i + 1)

RECURSIVE ChunkEntries(_, _, _)
\* frames.iter_mut().enumerate() over chunks.iter_mut().enumerate(), in order
ChunkEntries(fs, i, j) ==
    IF i > Len(fs) THEN <<>>
    ELSE IF j > Len(fs[i].chunks) THEN ChunkEntries(fs, i + 1, 1)
    ELSE <<[frame_idx |-> i - 1, chunk_idx |-> j - 1, chunk |-> fs[i].chunks[j]]>>
         \o ChunkEntries(fs, i, j + 1)

\* one arm of `match chunk`
PrepareChunk(acc, e, h, env) ==
    LET c == e.chunk
    IN  CASE c.kind = "Layer" ->
               [acc EXCEPT !.layers = Append(@, PreparedLayer(c, e.frame_idx, e.chunk_idx))]
          [] c.kind = "Cel" ->
               IF c.cel_type \in {"Raw", "CompressedImage"}
               THEN IF c.raw_data = None THEN acc
                    ELSE IF h.colour_depth \notin {32, 16}
                    THEN [acc EXCEPT !.panic = TRUE, !.why = "colour_depth"]
                    ELSE IF ~env.texture
                    THEN [acc EXCEPT !.panic = TRUE, !.why = "texture"]
                    ELSE [acc EXCEPT !.cels = Append(@, TexturedCel(c, e.frame_idx))]
               ELSE IF c.cel_type = "Linked"
               THEN [acc EXCEPT !.cels = Append(@, LinkedPreparedCel(c, e.frame_idx, h))]
               ELSE [acc EXCEPT !.panic = TRUE, !.why = "unimplemented"]
          [] c.kind = "Tag" ->
               [acc EXCEPT !.tags = @ \o PreparedTags(c.tags, 0)]
          [] OTHER -> acc

RECURSIVE PrepareChunks(_, _, _, _, _)
PrepareChunks(entries, k, acc, h, env) ==
    IF k > Len(entries) \/ acc.panic THEN acc
    ELSE PrepareChunks(entries, k + 1, PrepareChunk(acc, entries[k], h, env), h, env)

\* mutant: a layer is filed under the level it looks its parent up at
ParentLevel_Same(child_level) == child_level
\* (layer.child_level as i32) - 1
ParentLevel(child_level) == child_level - 1

RECURSIVE ParentWalk(_, _, _)
\* the parent_map block: layer_idx counts from 0, parent_map is a function
\* from the levels seen so far (and -1) to the last index filed under each
ParentWalk(layers, layer_idx, parent_map) ==
    IF layer_idx >= Len(layers) THEN layers
    ELSE LET level == layers[layer_idx + 1].child_level
             pm    == [k \in DOMAIN parent_map \union {level} |->
                          IF k = level THEN layer_idx ELSE parent_map[k]]
             par   == IF ParentLevel(level) \in DOMAIN pm
                      THEN pm[ParentLevel(level)] ELSE NO_PARENT
         IN  ParentWalk([layers EXCEPT ![layer_idx + 1].parent_index = par],
                        layer_idx + 1, pm)

RECURSIVE internal_layer_name(_, _, _)
\* format!("{}.{}", result, parent's name), deepness levels at most
internal_layer_name(layers, layer_index, deepness) ==
    LET layer == layers[layer_index + 1]
    IN  IF layer.parent_index # NO_PARENT /\ deepness > 0
        THEN layer.name \o <<46>>
             \o internal_layer_name(layers, layer.parent_index,
                                    Min(deepness, RECURSIVE_LIMIT) - 1)
        ELSE layer.name

layer_name(layers, layer_index) == internal_layer_name(layers, layer_index, RECURSIVE_LIMIT)

RECURSIVE internal_layer_visible(_, _, _)
internal_layer_visible(layers, layer_index, deepness) ==
    LET layer == layers[layer_index + 1]
    IN  IF layer.visible /\ layer.parent_index # NO_PARENT /\ deepness > 0
        THEN layer.visible
             /\ internal_layer_visible(layers, layer.parent_index,
                                       Min(deepness, RECURSIVE_LIMIT) - 1)
        ELSE layer.visible

is_layer_visible(layers, layer_index) ==
    internal_layer_visible(layers, layer_index, RECURSIVE_LIMIT)

\* header.width * header.pixel_width as u16 + GAP, in u16
OffsetOverflows(extent, scale) == extent * scale + GAP > 65535
OffsetOf(extent, scale) == (extent * scale + GAP) % 65536

\* the AsepriteError that load hands on for each way read() gives up
AsepriteErrorOf(why) ==
    CASE why = "header_count" -> "RanOutAtHeader"
      [] why = "header_magic" -> "HeaderMagicMismatch"
      [] why = "frame_magic"  -> "FrameMagicMismatch"
      [] OTHER                -> "Other"

\* LoadedSprite::load after File::open, r being what aseprite::read returned
load(r, env) ==
    CASE r.result = "Err" -> [out |-> "err", error |-> AsepriteErrorOf(r.site)]
      [] r.result = "Panic" -> [out |-> "panic", why |-> r.site]
      [] r.result = "Ok" ->
           LET h == r.header
           IN  IF /\ env.build = "debug"
                  /\ \/ OffsetOverflows(h.width, h.pixel_width)
                     \/ OffsetOverflows(h.height, h.pixel_height)
               THEN [out |-> "panic", why |-> "overflow"]
               ELSE
               LET acc == PrepareChunks(ChunkEntries(r.frames, 1, 1), 1,
                              [panic |-> FALSE, why |-> "none", layers |-> <<>>,
                               cels |-> <<>>, tags |-> <<>>], h, env)
                   linked == ParentWalk(acc.layers, 0, [k \in {-1} |-> NO_PARENT])
               IN  IF acc.panic THEN [out |-> "panic", why |-> acc.why]
                   ELSE [out           |-> "ok",
                         header        |-> h,
                         loaded_cels   |-> acc.cels,
                         loaded_layers |-> [i \in 1..Len(linked) |->
                                              [linked[i] EXCEPT !.full_name =
                                                  Some(layer_name(linked, i - 1))]],
                         loaded_tags   |-> acc.tags,
                         frame_count   |-> Len(r.frames),
                         offset        |-> <<OffsetOf(h.width, h.pixel_width),
                                             OffsetOf(h.height, h.pixel_height)>>]
      [] OTHER -> [out |-> "unmodelled"]

\* LoadedSprite::load on the document read() has returned
Load ==
    /\ pc = "done"
    /\ sprite = NotLoaded
    /\ \E env \in Environments :
          sprite' = load([result |-> result, site |-> site, header |-> header,
                          frames |-> frames], env)
    /\ UNCHANGED <<stream, pos, pc, result, err, site, header, frame_buffer, frames,
                   frame, chunk_i, frame_count, lastSpan, short>>
    /\ UNCHANGED uiVars

\* the steps of read()
ReadNext == ReadHeader \/ EndOfStream \/ ReadFrameHeader \/ ReadChunk \/ PushFrame

Next == ReadNext \/ Load

Spec == Init /\ [][Next]_vars

\* read() on the streams of a valid header and up to MaxItems - 1 items;
\* read() is one sequential call: the step it is at is taken
InitLive ==
    /\ stream \in {HeaderBytes(ASEPRITE_MAGIC_HEADER, 2) \o Render(items, 1) :
                       items \in ItemSeqs(MaxItems - 1)}
    /\ Fresh

LiveSpec == InitLive /\ [][ReadNext]_vars /\ WF_vars(ReadNext)

\* the same read(), on the streams of one generated chunk
SpecChunks == InitChunks /\ [][Next]_vars

\* read() and load() on the streams of generated layer lists and names
InitLayers == stream \in LayerStreams /\ Fresh

SpecLayers == InitLayers /\ [][Next]_vars

(***************************************************************************)
(* read() as a function of the stream: the same steps, run to the end.     *)
(* It is used to compare the run on `stream` with the run on another       *)
(* stream.  `starts` lists the positions where a frame header was read     *)
(* from bytes that no chunk header read had looked at before (a chunk of   *)
(* size 0 leaves the position on its own header, which is then read again  *)
(* as a frame header).                                                     *)
(***************************************************************************)
Outcome(res, why, h, fs, st) ==
    [result |-> res, site |-> why, header |-> h, frames |-> fs, starts |-> st]

RECURSIVE ChunkLoop(_, _, _, _, _)
RECURSIVE ChunkDecoded(_, _, _, _, _, _)
\* lines 443-564, the end of one iteration: the chunk d is pushed, or read()
\* gives up; end is the position after the chunk's bytes
ChunkDecoded(s, f, i, d, end, peek) ==
    IF d.out = "ok"
    THEN ChunkLoop(s, end, [f EXCEPT !.chunks = Append(@, d.chunk[1])], i + 1, peek)
    ELSE [out |-> d.out, site |-> d.site, pos |-> end, frame |-> f, peek |-> peek]

\* lines 415-564: `for _ in 0..frame.chunk_count`, i iterations done; peek is
\* the position after the last chunk header read so far
ChunkLoop(s, p, f, i, peek) ==
    IF i >= ChunkLoopBound(f)
    THEN [out |-> "ok", site |-> "none", pos |-> p, frame |-> f, peek |-> peek]
    ELSE IF ~SpanModelled(ReadInto(s, p, Zeros(4)))
    THEN [out |-> "unmodelled", site |-> "none", pos |-> p, frame |-> f, peek |-> peek]
    ELSE
    LET n1         == ReadCount(s, p, 4)
        size       == FromLeBytes(ReadInto(s, p, Zeros(4)))
        n2         == ReadCount(s, p + n1, 2)
        chunk_type == FromLeBytes(ReadInto(s, p + n1, Zeros(2)))
        buf        == Zeros(ReservedLen(size))
    IN  ChunkDecoded(s, f, i,
                     DecodeChunk(size, chunk_type, ReadInto(s, RewindTo(p), buf)),
                     RewindTo(p) + ReadCount(s, RewindTo(p), Len(buf)),
                     p + n1 + n2)

RECURSIVE FrameLoop(_, _, _, _, _, _, _)
RECURSIVE FrameDone(_, _, _, _, _, _)
\* lines 415-567, the end of one frame: c is what its chunk loop came to
FrameDone(s, buf, h, fs, st, c) ==
    CASE c.out = "ok" -> FrameLoop(s, c.pos, buf, h, Append(fs, c.frame), st, c.peek)
      [] c.out = "err" -> Outcome("Err", c.site, h, fs, st)
      [] c.out = "panic" -> Outcome("Panic", c.site, h, fs, st)
      [] OTHER -> Outcome("Unmodelled", "none", h, fs, st)

\* lines 394-570: the while loop and the final Ok(result)
FrameLoop(s, p, fb, h, fs, st, peek) ==
    LET count == ReadCount(s, p, Len(fb))
        buf   == ReadInto(s, p, fb)
        st2   == IF p >= peek THEN Append(st, p) ELSE st
    IN  IF ~FrameLoopContinues(count, h.frames, Len(fs))
        THEN Outcome("Ok", "none", h, fs, st)
        ELSE IF ~FrameMagicOk(slice_to(2, Slice(buf, 4, 6)))
        THEN Outcome("Err", "frame_magic", h, fs, st2)
        ELSE FrameDone(s, buf, h, fs, st2,
                       ChunkLoop(s, p + count, DecodeFrame(buf), 0, peek))

\* pub fn read
read(s) ==
    LET buf   == Zeros(ReservedLen(HEADER_SIZE))
        count == ReadCount(s, 0, Len(buf))
        h     == DecodeHeader(ReadInto(s, 0, buf))
    IN  IF ~HeaderComplete(count) THEN Outcome("Err", "header_count", NoHeader, <<>>, <<>>)
        ELSE IF ~HeaderMagicOk(h.magic) THEN Outcome("Err", "header_magic", h, <<>>, <<>>)
        ELSE FrameLoop(s, count, Zeros(ReservedLen(FRAME_HEADER_SIZE)), h, <<>>, <<>>, 0)

\* the Document of an outcome
DocumentOf(r) ==
    IF r.result = "Ok" THEN Some([header |-> r.header, frames |-> r.frames]) ELSE None

(***************************************************************************)
(* Properties                                                              *)
(***************************************************************************)
\* the u16 at byte offset `at` of the stream, when the stream holds it
StreamU16(at) == FromLeBytes(SubSeq(stream, at + 1, at + 2))

\* C1: every chunk whose header and declared span lie inside the stream is
\* handed to its decoder as a span of exactly `size` bytes equal to the stream
\* bytes [start, start + size), and leaves the stream position at start + size.
C1_SpanIsDeclaredSize ==
    (lastSpan.read /\ lastSpan.start + 6 <= Len(stream)
                   /\ lastSpan.start + lastSpan.size <= Len(stream))
    => /\ Len(lastSpan.data) = lastSpan.size
       /\ lastSpan.data = SubSeq(stream, lastSpan.start + 1, lastSpan.start + lastSpan.size)
       /\ lastSpan.end = lastSpan.start + lastSpan.size

\* C2: once the header has been handled, a stream whose u16 at offset 4 is not
\* 0xA5E0 has been rejected with no Document, whatever follows the header; a
\* full header with the magic 0xA5E0 is accepted as it stands: its fields are
\* decoded and read() goes on to the frames, even for a 0 x 0 canvas.
C2_HeaderMagic ==
    /\ (pc # "start" /\ Len(stream) >= 6 /\ StreamU16(4) # ASEPRITE_MAGIC_HEADER)
       => (pc = "done" /\ result = "Err" /\ Document = None /\ frames = <<>>)
    /\ (pc # "start" /\ Len(stream) >= HEADER_SIZE /\ StreamU16(4) = ASEPRITE_MAGIC_HEADER)
       => /\ site \notin {"header_count", "header_magic"}
          /\ header = DecodeHeader(SubSeq(stream, 1, HEADER_SIZE))

\* a header with a wrong magic, followed by more bytes, was rejected
C2_Witness ==
    /\ pc = "done" /\ result = "Err" /\ site = "header_magic"
    /\ Len(stream) > HEADER_SIZE
    /\ StreamU16(4) = 42465

\* C3: a stream of 0..127 bytes is rejected at the header byte count, with no
\* Document and with no header field decoded.
C3_TruncatedHeader ==
    (pc # "start" /\ Len(stream) < HEADER_SIZE)
    => /\ pc = "done" /\ result = "Err" /\ site = "header_count"
       /\ header = NoHeader
       /\ Document = None

\* a stream of 50 bytes was rejected
C3_Witness == pc = "done" /\ result = "Err" /\ Len(stream) = 50

\* C4: when the u16 at offset 4 of the frame header about to be read is not
\* 0xF1FA, the step that reads the frame header ends read() with an error: the
\* position moves over the frame header and no further, no chunk is read, and
\* no Document is returned, earlier frames or not, whatever the chunk count.
C4_BadFrameMagic ==
    [][(pc = "frame_loop" /\ Len(stream) - pos >= 6
                          /\ StreamU16(pos + 4) # ASEPRITE_MAGIC_FRAMES)
       => /\ pc' = "done" /\ result' = "Err"
          /\ pos' = pos + Min(FRAME_HEADER_SIZE, Len(stream) - pos)
          /\ lastSpan' = lastSpan
          /\ frames' = frames
          /\ Document' = None]_vars

\* a frame that declares chunks, after a frame already decoded, was rejected
\* for its magic with its chunks still unread
C4_Witness ==
    /\ pc = "done" /\ result = "Err" /\ site = "frame_magic"
    /\ Len(frames) >= 1
    /\ slice_to(4, Slice(frame_buffer, 12, 16)) >= 1
    /\ pos < Len(stream)

\* C5: the error value read() returns identifies its cause: the value returned
\* for a truncated header is returned for no other cause.
C5_ErrorIdentifiesCause ==
    (result = "Err" /\ site # "header_count") => err # ErrValue("header_count")

\* the conditions the specification calls fatal
FatalSites == {"header_count", "header_magic", "frame_magic", "inflate", "unimplemented"}

\* C6: every fatal condition reaches the caller as an error return.
C6_FatalIsErrorReturn ==
    (pc = "done" /\ site \in FatalSites) => (result = "Err" /\ Document = None)

\* the last chunk read is a cel whose cel-kind wire value is 3 modulo 4
LastIsCompressedTilemap ==
    /\ lastSpan.read
    /\ lastSpan.chunk_type = ASEPRITE_CEL_CHUNK_MAGIC
    /\ InRange(lastSpan.data, 17, 22)
    /\ slice_to(2, Slice(lastSpan.data, 13, 15)) % 4 = 3

\* C7: decoding a CompressedTilemap cel makes read() return an error.
C7_UnsupportedIsError ==
    LastIsCompressedTilemap => (pc = "done" /\ result = "Err")

\* the last chunk read is a Layer, Cel or Tag whose span is shorter than the
\* fixed offsets its decoder reads
LastIsShortKnownChunk ==
    /\ lastSpan.read
    /\ lastSpan.chunk_type \in {ASEPRITE_LAYER_CHUNK_MAGIC, ASEPRITE_CEL_CHUNK_MAGIC,
                                ASEPRITE_TAG_CHUNK_MAGIC}
    /\ Len(lastSpan.data) < 16

\* C8: a field beyond the end of the span decodes as zero and decoding goes
\* on: a short span never aborts the decode.
C8_ShortRangeNeverAborts ==
    LastIsShortKnownChunk => result # "Panic"

\* C9: a stream that ends inside a frame (a promised chunk header is missing
\* or a declared span runs past the end of the stream) is never accepted.
C9_TruncatedFrameRejected ==
    (pc = "done" /\ short) => result # "Ok"

\* C10: when no byte is left where a frame header would start, read() returns
\* Ok with exactly the frames pushed so far; a stream that is only a valid
\* header gives zero frames.
C10_EndAtFrameBoundary ==
    [][(pc = "frame_loop" /\ pos = Len(stream))
       => /\ pc' = "done" /\ result' = "Ok"
          /\ frames' = frames
          /\ Document' = Some([header |-> header, frames |-> frames])
          /\ (Len(stream) = HEADER_SIZE => frames' = <<>>)]_vars

\* two frames were decoded and the stream ended right after the second
C10_Witness ==
    /\ pc = "done" /\ result = "Ok"
    /\ Len(frames) = 2
    /\ Len(frames[1].chunks) = 1
    /\ pos = Len(stream)
    /\ ~short

\* the bytes of s with those at offsets at .. at + Len(b) - 1 replaced by b,
\* as far as s holds them
Patch(s, at, b) ==
    [i \in 1..Len(s) |-> IF i > at /\ i <= at + Len(b) THEN b[i - at] ELSE s[i]]

RECURSIVE PatchAll(_, _, _)
PatchAll(s, ats, b) ==
    IF ats = <<>> THEN s ELSE PatchAll(Patch(s, Head(ats), b), Tail(ats), b)

\* other values for the header's frame count and for every frame's size field
AdvisoryFrameCounts == {0, 9}
AdvisoryFrameSizes == {0, 70000}

\* the streams that differ from `stream` in the header's frame count (offset 6)
\* and in the size field of every frame header read() reads (those whose
\* bytes are not a chunk header's as well)
AdvisoryVariants ==
    {PatchAll(Patch(stream, 6, LE16(c)), read(stream).starts, LE32(z)) :
        c \in AdvisoryFrameCounts, z \in AdvisoryFrameSizes}

\* a Document without the stored header.frames and frame.size values
EraseAdvisory(doc) ==
    IF doc = None THEN None
    ELSE Some([header |-> [doc[1].header EXCEPT !.frames = 0],
               frames |-> [i \in 1..Len(doc[1].frames) |->
                              [doc[1].frames[i] EXCEPT !.size = 0]]])

\* C11: the header's frame count and the frames' size fields are advisory: a
\* stream that differs from the one read only in those bytes ends in the same
\* outcome, at the same site, with the same Document apart from the stored
\* header.frames and frame.size; and the step that follows a frame with chunks
\* reads the next frame header at the position where its last chunk ended.
C11_CountsAdvisory ==
    /\ [](pc = "done" =>
            \A v \in AdvisoryVariants :
                LET r == read(v)
                IN  /\ r.result = result
                    /\ r.site = site
                    /\ EraseAdvisory(DocumentOf(r)) = EraseAdvisory(Document))
    /\ [][(/\ pc = "frame_loop"
           /\ frames # <<>>
           /\ frames[Len(frames)].chunks # <<>>)
          => /\ pos = lastSpan.end
             /\ frame_buffer' = ReadInto(stream, lastSpan.end, frame_buffer)]_vars

\* two frames were decoded from a stream whose header declares one frame; the
\* second frame's chunk starts past the declared end of a frame of size 0
C11_Witness ==
    /\ pc = "done" /\ result = "Ok"
    /\ Len(frames) = 2
    /\ header.frames = 1
    /\ frames[2].chunks # <<>>
    /\ \E v \in AdvisoryVariants :
          /\ v # stream
          /\ read(v).result = "Ok"
          /\ read(v).frames[2].size = 0
          /\ read(v).header.frames = 0

\* other values for the legacy chunk count of every frame header
LegacyCounts == {1, 65535}

\* the streams that differ from `stream` in the legacy chunk count (offset 6)
\* of every frame header read() reads
LegacyCountVariants ==
    {PatchAll(stream, [i \in 1..Len(read(stream).starts) |-> read(stream).starts[i] + 6],
              LE16(c)) : c \in LegacyCounts}

\* a Document without the stored old_chunks values
EraseLegacy(doc) ==
    IF doc = None THEN None
    ELSE Some([header |-> doc[1].header,
               frames |-> [i \in 1..Len(doc[1].frames) |->
                              [doc[1].frames[i] EXCEPT !.old_chunks = 0]]])

\* C12: every frame pushed to the Document holds exactly chunk_count chunks,
\* chunk_count being the u32 at offset 12 of the frame header when the stream
\* holds the 16 bytes of that header; each chunk read is appended after the
\* chunks read before it; and a stream that differs only in the legacy counts
\* at offset 6 ends in the same outcome with the same chunks.
C12_ChunkCount ==
    /\ [](\A i \in 1..Len(frames) : Len(frames[i].chunks) = frames[i].chunk_count)
    /\ [](pc = "done" =>
            \A v \in LegacyCountVariants :
                LET r == read(v)
                IN  /\ r.result = result
                    /\ EraseLegacy(DocumentOf(r)) = EraseLegacy(Document))
    /\ [][(pc = "frame_loop" /\ pc' = "chunk_loop" /\ Len(stream) - pos >= FRAME_HEADER_SIZE)
          => frame'.chunk_count = FromLeBytes(SubSeq(stream, pos + 13, pos + 16))]_vars
    /\ [][(pc = "chunk_loop" /\ pc' = "chunk_loop")
          => /\ Len(frame'.chunks) = Len(frame.chunks) + 1
             /\ SubSeq(frame'.chunks, 1, Len(frame.chunks)) = frame.chunks
             /\ lastSpan'.start = pos
             /\ frame'.chunks[Len(frame'.chunks)] =
                    DecodeChunk(lastSpan'.size, lastSpan'.chunk_type, lastSpan'.data).chunk[1]]_vars

\* a Document was returned with a frame of one chunk whose legacy count is 0
\* and a frame of one chunk whose legacy count is 0xFFFF
C12_Witness ==
    /\ pc = "done" /\ result = "Ok"
    /\ Len(frames) = 2
    /\ frames[1].chunk_count = 1 /\ Len(frames[1].chunks) = 1 /\ frames[1].old_chunks = 0
    /\ frames[2].old_chunks = 65535 /\ Len(frames[2].chunks) = 1

\* the chunk loop has just pushed the chunk decoded from lastSpan
ChunkJustPushed == pc = "chunk_loop" /\ frame.chunks # <<>>
LastChunk == frame.chunks[Len(frame.chunks)]

\* the variant that goes with a type tag
VariantOfTag(t) ==
    CASE t = 8196 -> "Layer"
      [] t = 8197 -> "Cel"
      [] t = 8216 -> "Tag"
      [] OTHER -> "Unknown"

\* C13: the variant of a decoded chunk is the one that goes with the u16 at
\* offset 4 of the chunk; an Unknown chunk carries that tag, the declared size
\* and the bytes of the span, and its data has exactly `size` bytes.
C13_VariantByTag ==
    (ChunkJustPushed /\ lastSpan.start + 6 <= Len(stream))
    => /\ LastChunk.kind = VariantOfTag(StreamU16(lastSpan.start + 4))
       /\ LastChunk.kind = "Unknown" =>
             /\ LastChunk.chunk_type = StreamU16(lastSpan.start + 4)
             /\ LastChunk.size = FromLeBytes(SubSeq(stream, lastSpan.start + 1,
                                                    lastSpan.start + 4))
             /\ Len(LastChunk.data) = LastChunk.size
             /\ lastSpan.start + LastChunk.size <= Len(stream) =>
                   LastChunk.data = SubSeq(stream, lastSpan.start + 1,
                                           lastSpan.start + LastChunk.size)

\* the text fields of a decoded chunk
TextFields(c) ==
    CASE c.kind = "Layer" -> {c.name}
      [] c.kind = "Tag" -> {c.tags[i].name : i \in 1..Len(c.tags)}
      [] OTHER -> {}

\* C14: every text field of a decoded chunk holds exactly as many bytes as its
\* length prefix declares; a layer's name is the bytes of the span that follow
\* the prefix at offset 22, as many as declared, whatever comes after them.
C14_TextFieldExact ==
    ChunkJustPushed
    => /\ \A t \in TextFields(LastChunk) : Len(t.data) = t.length
       /\ LastChunk.kind = "Layer" =>
             LastChunk.name.data = Slice(lastSpan.data, 24, 24 + LastChunk.name.length)

\* the span last read is a layer's, long enough to hold the name prefix
LastIsLayerSpan ==
    /\ lastSpan.read
    /\ lastSpan.chunk_type = 8196
    /\ Len(lastSpan.data) >= 24
\* the name length its prefix declares, and whether its kind is Tilemap
SpanNameLen == FromLeBytes(Slice(lastSpan.data, 22, 24))
SpanIsTilemap == FromLeBytes(Slice(lastSpan.data, 8, 10)) % 3 = 2
\* the u32 in the last four bytes of the span
SpanLastU32 == FromLeBytes(Slice(lastSpan.data, Len(lastSpan.data) - 4, Len(lastSpan.data)))

\* what decoding a layer span of the right size yields: a name of exactly L
\* bytes, those after the prefix, and for Tilemap the index of the last 4 bytes
LayerDecodedExactly ==
    /\ result \notin {"Panic", "Err"}
    /\ ChunkJustPushed =>
          /\ LastChunk.kind = "Layer"
          /\ LastChunk.name.length = SpanNameLen
          /\ Len(LastChunk.name.data) = SpanNameLen
          /\ LastChunk.name.data = Slice(lastSpan.data, 24, 24 + SpanNameLen)
          /\ SpanIsTilemap => LastChunk.tileset_index = Some(SpanLastU32)

C16_TilesetIndex ==
    (ChunkJustPushed /\ LastChunk.kind = "Layer")
    => /\ (LastChunk.tileset_index # None) <=> (LastChunk.layer_type = "Tilemap")
       /\ (LastChunk.layer_type = "Tilemap") <=> SpanIsTilemap
       /\ LastChunk.name.length = SpanNameLen
       /\ IF LastChunk.tileset_index # None
          THEN /\ LastChunk.tileset_index = Some(SpanLastU32)
               /\ LastChunk.name.data = Slice(lastSpan.data, 24, Len(lastSpan.data) - 4)
          ELSE LastChunk.name.data = Slice(lastSpan.data, 24, Len(lastSpan.data))

\* a layer whose kind field is 5 was decoded as a Tilemap with the index
\* 0x68676665 and a one-byte name
C16_Witness ==
    /\ ChunkJustPushed
    /\ LastChunk.kind = "Layer"
    /\ FromLeBytes(Slice(lastSpan.data, 8, 10)) = 5
    /\ LastChunk.tileset_index = Some(101 + 256 * 102 + 65536 * 103 + 16777216 * 104)
    /\ LastChunk.name.data = <<65>>

\* the span last read is a tag chunk's, long enough to hold its count
LastIsTagSpan ==
    /\ lastSpan.read
    /\ lastSpan.chunk_type = 8216
    /\ Len(lastSpan.data) >= 16
\* the tag count a tag span declares
SpanTagCount == FromLeBytes(Slice(lastSpan.data, 6, 8))

RECURSIVE TagStarts(_, _, _)
\* where the n records from offset o on start, each 19 + L bytes long, L being
\* the u16 at its offset 17; the walk stops where the span ends
TagStarts(span, n, o) ==
    IF n = 0 \/ o + 19 > Len(span) THEN <<>>
    ELSE <<o>> \o TagStarts(span, n - 1, o + 19 + FromLeBytes(Slice(span, o + 17, o + 19)))

RECURSIVE TagsEnd(_, _, _)
\* where the last of the n records from offset o on ends
TagsEnd(span, n, o) ==
    IF n = 0 \/ o + 19 > Len(span) THEN o
    ELSE TagsEnd(span, n - 1, o + 19 + FromLeBytes(Slice(span, o + 17, o + 19)))

\* C17: a decoded tag chunk holds as many records as it declares; record i is
\* read at span offset 16 + the sum of 19 + L_j over the records before it, and
\* its name is the L_i bytes after its prefix; a tag span whose length is
\* exactly 16 + the sum of 19 + L_i is decoded.
C17_TagWalk ==
    LET span   == lastSpan.data
        starts == TagStarts(span, SpanTagCount, 16)
    IN  /\ (ChunkJustPushed /\ LastChunk.kind = "Tag")
           => /\ LastChunk.tag_count = SpanTagCount
              /\ Len(LastChunk.tags) = SpanTagCount
              /\ Len(starts) = SpanTagCount
              /\ \A i \in 1..Len(LastChunk.tags) :
                    LET t == LastChunk.tags[i]
                        o == starts[i]
                        L == FromLeBytes(Slice(span, o + 17, o + 19))
                    IN  /\ t.from = FromLeBytes(Slice(span, o, o + 2))
                        /\ t.to = FromLeBytes(Slice(span, o + 2, o + 4))
                        /\ t.name.length = L
                        /\ Len(t.name.data) = L
                        /\ t.name.data = Slice(span, o + 19, o + 19 + L)
        /\ (LastIsTagSpan /\ Len(starts) = SpanTagCount
                          /\ Len(span) = TagsEnd(span, SpanTagCount, 16))
           => /\ result \notin {"Panic", "Err"}
              /\ pc = "chunk_loop" => (ChunkJustPushed /\ LastChunk.kind = "Tag")

\* a tag chunk of two records with names of two bytes and of one byte, and
\* nothing after them, was decoded
C17_Witness ==
    /\ ChunkJustPushed
    /\ LastChunk.kind = "Tag"
    /\ Len(LastChunk.tags) = 2
    /\ LastChunk.tags[1].name.data = <<65, 66>>
    /\ LastChunk.tags[2].name.data = <<65>>
    /\ LastChunk.tags[2].from = 1
    /\ Len(lastSpan.data) = 16 + 21 + 20

\* the enumerations as the format lists them, by wire value from 0
LayerKindMembers == <<"Normal", "Group", "Tilemap">>
BlendModeMembers == <<"Normal", "Multiply", "Screen", "Overlay", "Darken", "Lighten",
                      "ColorDodge", "ColorBurn", "HardLight", "SoftLight", "Difference",
                      "Exclusion", "Hue", "Saturation", "Color", "Luminosity",
                      "Addition", "Subtract", "Divide">>
CelKindMembers == <<"Raw", "Linked", "CompressedImage", "CompressedTilemap">>
TagDirectionMembers == <<"Forward", "Reverse", "PingPong", "PingPongReverse">>

\* the span last read is a cel's, long enough to hold the common fields
LastIsCelSpan ==
    /\ lastSpan.read
    /\ lastSpan.chunk_type = 8197
    /\ Len(lastSpan.data) >= 22
\* the cel-kind wire value of a cel span
SpanCelKind == FromLeBytes(Slice(lastSpan.data, 13, 15))

\* C18: each enumeration field decodes to the member at (wire value mod set
\* size): layer kind mod 3, blend mode mod 19, cel kind mod 4 (a cel whose
\* kind decodes to CompressedTilemap ends at the unsupported-kind site), tag
\* direction mod 4; the tag direction decoder does so for every byte value.
C18_EnumWrap ==
    /\ (ChunkJustPushed /\ LastChunk.kind = "Layer")
       => /\ LastChunk.layer_type =
                LayerKindMembers[(FromLeBytes(Slice(lastSpan.data, 8, 10)) % 3) + 1]
          /\ LastChunk.blend_mode =
                BlendModeMembers[(FromLeBytes(Slice(lastSpan.data, 16, 18)) % 19) + 1]
    /\ (ChunkJustPushed /\ LastChunk.kind = "Cel")
       => LastChunk.cel_type = CelKindMembers[(SpanCelKind % 4) + 1]
    /\ LastIsCelSpan
       => ((site = "unimplemented") <=>
              (CelKindMembers[(SpanCelKind % 4) + 1] = "CompressedTilemap"))
    /\ (ChunkJustPushed /\ LastChunk.kind = "Tag")
       => \A i \in 1..Len(LastChunk.tags) :
             LastChunk.tags[i].direction =
                TagDirectionMembers[(lastSpan.data[TagStarts(lastSpan.data, SpanTagCount, 16)[i] + 5] % 4) + 1]
    /\ \A v \in Byte : AsepriteTagDirection_from(v) = TagDirectionMembers[(v % 4) + 1]

\* a layer whose kind and blend mode fields are both 0xFFFF was decoded as a
\* Normal layer with blend mode Darken
C18_Witness ==
    /\ ChunkJustPushed
    /\ LastChunk.kind = "Layer"
    /\ Slice(lastSpan.data, 8, 10) = <<255, 255>>
    /\ Slice(lastSpan.data, 16, 18) = <<255, 255>>
    /\ LastChunk.layer_type = "Normal"
    /\ LastChunk.blend_mode = "Darken"

\* the span last read is a cel's of kind CompressedImage holding width and height
LastIsCompressedImage ==
    /\ LastIsCelSpan
    /\ SpanCelKind % 4 = 2
    /\ Len(lastSpan.data) >= 26
\* the compressed payload of the span
SpanPayload == Slice(lastSpan.data, 26, Len(lastSpan.data))

\* C19: a CompressedImage cel is inflated from span offset 26 to the end while
\* it is decoded and the inflated bytes become its raw_data (for a sound
\* encoding of p, p itself); when inflation fails (as it does on a corrupt
\* stream) read() ends with an error and no Document.
C19_InflateOrFail ==
    LastIsCompressedImage
    => /\ IF Inflate(SpanPayload).ok
          THEN /\ result \notin {"Err", "Panic"}
               /\ ChunkJustPushed =>
                     /\ LastChunk.kind = "Cel"
                     /\ LastChunk.cel_type = "CompressedImage"
                     /\ LastChunk.compressed_data = Some(SpanPayload)
                     /\ LastChunk.raw_data = Some(Inflate(SpanPayload).out)
          ELSE /\ pc = "done" /\ result = "Err" /\ site = "inflate"
               /\ Document = None
       /\ \A p \in PixelBuffers :
             /\ (SpanPayload = ZlibStored(p) /\ ChunkJustPushed)
                => LastChunk.raw_data = Some(p)
             /\ SpanPayload = ZlibStored(p) => result \notin {"Err", "Panic"}
             /\ SpanPayload \in CorruptZlib(p) => (result = "Err" /\ Document = None)

\* read() ended with an error on a CompressedImage cel of four pixel bytes
\* whose checksum is wrong
C19_Witness ==
    /\ pc = "done" /\ result = "Err" /\ site = "inflate"
    /\ LastIsCompressedImage
    /\ \E p \in PixelBuffers :
          /\ Len(p) = 4
          /\ SpanPayload = [ZlibStored(p) EXCEPT ![Len(ZlibStored(p))] = (@ + 1) % 256]

\* the spans of a Raw cel carrying p and of a CompressedImage cel carrying the
\* zlib encoding of p
RawSpan(p) == CelBytes(0, LE16(Len(p)) \o LE16(1) \o p)
CompressedSpan(p) == CelBytes(2, LE16(Len(p)) \o LE16(1) \o ZlibStored(p))

\* C20: the cel decoded from a CompressedImage span carrying the encoding of p
\* and the cel decoded from the Raw span carrying p have the same raw_data, p.
C20_CompressionTransparency ==
    \A p \in PixelBuffers :
        /\ lastSpan.read /\ lastSpan.data = CompressedSpan(p)
           => /\ result \notin {"Err", "Panic"}
              /\ DecodeCel(RawSpan(p)).out = "ok"
              /\ ChunkJustPushed =>
                    /\ LastChunk.raw_data = DecodeCel(RawSpan(p)).chunk[1].raw_data
                    /\ LastChunk.raw_data = Some(p)
        /\ lastSpan.read /\ lastSpan.data = RawSpan(p)
           => /\ result \notin {"Err", "Panic"}
              /\ DecodeCel(CompressedSpan(p)).out = "ok"
              /\ ChunkJustPushed =>
                    /\ LastChunk.raw_data = DecodeCel(CompressedSpan(p)).chunk[1].raw_data
                    /\ LastChunk.raw_data = Some(p)

\* a CompressedImage cel carrying four pixel bytes was decoded: its raw_data
\* is those bytes and its compressed_data is not
C20_Witness ==
    /\ ChunkJustPushed
    /\ LastChunk.kind = "Cel"
    /\ LastChunk.cel_type = "CompressedImage"
    /\ \E p \in PixelBuffers :
          /\ Len(p) = 4
          /\ lastSpan.data = CompressedSpan(p)
          /\ LastChunk.raw_data = Some(p)
          /\ LastChunk.compressed_data = Some(ZlibStored(p))

\* C21: a decoded Raw cel has the u16 at span offset 22 as width, the u16 at
\* offset 24 as height, and as raw_data the bytes of the span from offset 26
\* to its end as they are in the stream: chunk size - 26 bytes, whatever
\* width and height say.
C21_RawCel ==
    (ChunkJustPushed /\ LastChunk.kind = "Cel" /\ LastChunk.cel_type = "Raw")
    => /\ LastChunk.width = Some(FromLeBytes(Slice(lastSpan.data, 22, 24)))
       /\ LastChunk.height = Some(FromLeBytes(Slice(lastSpan.data, 24, 26)))
       /\ LastChunk.raw_data = Some(Slice(lastSpan.data, 26, Len(lastSpan.data)))
       /\ Len(LastChunk.raw_data[1]) = lastSpan.size - 26
       /\ lastSpan.start + lastSpan.size <= Len(stream) =>
             LastChunk.raw_data[1] = SubSeq(stream, lastSpan.start + 27,
                                            lastSpan.start + lastSpan.size)

\* a Raw cel (kind field 4) that declares 4 x 1 pixels and carries 15 bytes
\* after its height was decoded with a raw_data of 15 bytes
C21_Witness ==
    /\ ChunkJustPushed
    /\ LastChunk.kind = "Cel"
    /\ LastChunk.cel_type = "Raw"
    /\ SpanCelKind = 4
    /\ LastChunk.width = Some(4) /\ LastChunk.height = Some(1)
    /\ Len(LastChunk.raw_data[1]) = 15

(***************************************************************************)
(* C26.  The optional fields of a cel follow its kind.                     *)
(***************************************************************************)
Present(field) == field # None

\* every chunk decoded so far: those of the pushed frames and of the frame
\* under construction
DecodedChunks ==
    UNION {{frames[i].chunks[j] : j \in 1..Len(frames[i].chunks)} : i \in 1..Len(frames)}
    \union (IF frame.decoded THEN {frame.chunks[j] : j \in 1..Len(frame.chunks)} ELSE {})

\* C26: in every decoded cel, Raw has width, height and raw_data and neither
\* linked_to nor compressed_data; Linked has linked_to alone; CompressedImage
\* has width, height, compressed_data and raw_data and no linked_to; so
\* raw_data is present exactly for Raw and CompressedImage.
C26_CelFieldsByKind ==
    \A c \in DecodedChunks :
            c.kind = "Cel" =>
              /\ c.cel_type \in {"Raw", "Linked", "CompressedImage"}
              /\ c.cel_type = "Raw" =>
                    /\ Present(c.width) /\ Present(c.height) /\ Present(c.raw_data)
                    /\ ~Present(c.linked_to) /\ ~Present(c.compressed_data)
              /\ c.cel_type = "Linked" =>
                    /\ Present(c.linked_to)
                    /\ ~Present(c.width) /\ ~Present(c.height)
                    /\ ~Present(c.raw_data) /\ ~Present(c.compressed_data)
              /\ c.cel_type = "CompressedImage" =>
                    /\ Present(c.width) /\ Present(c.height)
                    /\ Present(c.compressed_data) /\ Present(c.raw_data)
                    /\ ~Present(c.linked_to)
              /\ Present(c.raw_data) <=> c.cel_type \in {"Raw", "CompressedImage"}

\* a linked cel whose wire kind wraps onto Linked (5 % 4) has been decoded
C26_Witness ==
    /\ ChunkJustPushed
    /\ LastIsCelSpan
    /\ LastChunk.kind = "Cel"
    /\ LastChunk.cel_type = "Linked"
    /\ SpanCelKind = 5
    /\ Present(LastChunk.linked_to)

(***************************************************************************)
(* C25.  A frame header cut short after an earlier frame.                  *)
(***************************************************************************)
\* bytes of the stream not yet consumed
Remaining == Len(stream) - pos

\* C25: when an earlier frame header has been read and between 1 and 15
\* bytes remain where the next frame header would start, no frame is
\* produced: the bytes of frame_buffer that this read does not overwrite
\* (always the end of chunk_count, and the magic when fewer than 6 bytes
\* remain) are those of the previous frame header.
C25_NoStaleFrameHeader ==
    [][(pc = "frame_loop" /\ frames # <<>> /\ Remaining \in 1..(FRAME_HEADER_SIZE - 1))
         => pc' # "chunk_loop"]_vars

(***************************************************************************)
(* C23.  The header fields and the bytes they are made of.                 *)
(***************************************************************************)
\* name, offset, width and signedness of the header fields
HeaderLayout ==
    {<<"fsize", 0, 4, FALSE>>, <<"magic", 4, 2, FALSE>>, <<"frames", 6, 2, FALSE>>,
     <<"width", 8, 2, FALSE>>, <<"height", 10, 2, FALSE>>,
     <<"colour_depth", 12, 2, FALSE>>, <<"flags", 14, 4, FALSE>>,
     <<"speed", 18, 2, FALSE>>, <<"palette_entry", 28, 1, FALSE>>,
     <<"colour_count", 32, 2, FALSE>>, <<"pixel_width", 34, 1, FALSE>>,
     <<"pixel_height", 35, 1, FALSE>>, <<"grid_xpos", 36, 2, TRUE>>,
     <<"grid_ypos", 38, 2, TRUE>>, <<"grid_width", 40, 2, FALSE>>,
     <<"grid_height", 42, 2, FALSE>>}

\* the little-endian value of w bytes of s at offset at
WireValue(s, at, w, signed) ==
    LET v == FromLeBytes(SubSeq(s, at + 1, at + w))
    IN  IF signed /\ v >= 2 ^ (8 * w - 1) THEN v - 2 ^ (8 * w) ELSE v

\* another value for the byte at offset at; the top bytes of the 32-bit
\* fields stay below 128
OtherByte(s, at) == (s[at + 1] + 1) % (IF at \in {3, 17} THEN 128 ELSE 256)

\* the header has just been decoded and accepted
HeaderJustDecoded == pc = "frame_loop" /\ frames = <<>>

\* C23: each field of an accepted header is the little-endian value at its
\* offset and width, and changing one byte of the header changes the fields
\* whose range holds that byte and no other field.
C23_HeaderFields ==
    /\ (header.decoded /\ HeaderMagicOk(header.magic)) =>
          \A f \in HeaderLayout : header[f[1]] = WireValue(stream, f[2], f[3], f[4])
    /\ HeaderJustDecoded =>
          \A at \in 0..(HEADER_SIZE - 1) :
             LET h2 == DecodeHeader(Patch(SubSeq(stream, 1, HEADER_SIZE), at,
                                          <<OtherByte(stream, at)>>))
             IN  \A f \in HeaderLayout :
                    (h2[f[1]] # header[f[1]]) <=> (f[2] <= at /\ at < f[2] + f[3])

\* a patterned header has been decoded: every listed field is non-zero and
\* the grid origin is negative
C23_Witness ==
    /\ HeaderJustDecoded
    /\ stream \in HeaderStreams
    /\ header.grid_xpos < 0
    /\ header.palette_entry # header.pixel_width
    /\ header.pixel_width # header.pixel_height
    /\ \A f \in HeaderLayout : header[f[1]] # 0

(***************************************************************************)
(* C22.  Names that are not UTF-8.                                         *)
(***************************************************************************)
\* "frame0 chunk0", "frame1 chunk1", "Tag 0", "Tag 1"
Frame0Chunk0 == <<102, 114, 97, 109, 101, 48, 32, 99, 104, 117, 110, 107, 48>>
Frame1Chunk1 == <<102, 114, 97, 109, 101, 49, 32, 99, 104, 117, 110, 107, 49>>
Tag0 == <<84, 97, 103, 32, 48>>
Tag1 == <<84, 97, 103, 32, 49>>

\* the samples that are text
TextSamples == {<<>>, <<65>>, <<195, 169>>, <<240, 159, 152, 128>>}

\* the name shown for the bytes n: n itself when it is text, else the placeholder
Shown(n, placeholder) == IF n \in TextSamples THEN n ELSE placeholder

\* C22: whatever the bytes of the layer and tag names are, read returns the
\* document with those bytes in the name fields; as_str fails exactly on the
\* names that are not UTF-8; and load then shows "frame<i> chunk<j>" for
\* such a layer and "Tag <k>" for such a tag, and the name itself otherwise.
C22_InvalidNames ==
    /\ (pc = "done" /\ stream \in NameStreams) =>
          /\ result = "Ok"
          /\ Len(frames) = 2
          /\ \E n1 \in NameSamples, n2 \in NameSamples :
                /\ stream = NameStream(n1, n2)
                /\ frames[1].chunks[1].name.data = n1
                /\ frames[2].chunks[1].tags[1].name.data = n2
                /\ frames[2].chunks[1].tags[2].name.data = n1
                /\ frames[2].chunks[2].name.data = n2
                /\ as_str(frames[1].chunks[1].name).ok <=> n1 \in TextSamples
                /\ as_str(frames[2].chunks[1].tags[1].name).ok <=> n2 \in TextSamples
                /\ sprite # NotLoaded =>
                      /\ sprite.out = "ok"
                      /\ Len(sprite.loaded_layers) = 2
                      /\ Len(sprite.loaded_tags) = 2
                      /\ sprite.loaded_layers[1].name = Shown(n1, Frame0Chunk0)
                      /\ sprite.loaded_layers[2].name = Shown(n2, Frame1Chunk1)
                      /\ sprite.loaded_tags[1].name = Shown(n2, Tag0)
                      /\ sprite.loaded_tags[2].name = Shown(n1, Tag1)
    /\ sprite.out = "ok" =>
          /\ \A i \in 1..Len(sprite.loaded_layers) : Utf8Valid(sprite.loaded_layers[i].name)
          /\ \A i \in 1..Len(sprite.loaded_tags) : Utf8Valid(sprite.loaded_tags[i].name)

\* a document with a layer named by the byte 0xFF and a tag named by a lead
\* byte without continuation has been read and loaded
C22_Witness ==
    /\ result = "Ok"
    /\ sprite.out = "ok"
    /\ stream = NameStream(<<255>>, <<195, 40>>)
    /\ frames[1].chunks[1].name.data = <<255>>
    /\ sprite.loaded_layers[1].name = Frame0Chunk0
    /\ sprite.loaded_tags[1].name = Tag0

(***************************************************************************)
(* C24.  Termination of read().                                            *)
(***************************************************************************)
\* the variables read() itself changes
readVars == <<pos, pc, result, err, site, header, frame_buffer, frames, frame,
              chunk_i, frame_count, lastSpan, short>>

\* what is left to do: the bytes not yet consumed, then the steps left
\* before the next byte must be consumed; ordered lexicographically
Variant ==
    <<Remaining,
      CASE pc = "done"       -> 0
        [] pc = "frame_loop" -> 1
        [] pc = "chunk_loop" -> 2 + (ChunkLoopBound(frame) - chunk_i)
        [] pc = "start"      -> 2>>

LexLess(a, b) == a[1] < b[1] \/ (a[1] = b[1] /\ a[2] < b[2])

\* the chunk loop holds a chunk whose declared size exceeds MaxSpan
BeyondModel ==
    /\ pc = "chunk_loop"
    /\ chunk_i < ChunkLoopBound(frame)
    /\ ~SpanModelled(ReadInto(stream, pos, Zeros(4)))

\* a frame-loop iteration: the read returned bytes and the body ran
FrameIteration == pc = "frame_loop" /\ (pc' = "chunk_loop" \/ site' = "frame_magic")
\* a chunk-loop iteration
ChunkIteration == pc = "chunk_loop" /\ (chunk_i' = chunk_i + 1 \/ pc' = "done")
\* the chunk loop is left
ChunkLoopExit == pc = "chunk_loop" /\ pc' = "frame_loop"

\* C24: read terminates.  Every frame-loop iteration consumes at least one
\* byte; every chunk leaves the position at or after the chunk's start; the
\* chunk loop is left after exactly chunk_count iterations; so the position
\* never decreases, every step of read lowers (bytes left, steps left), and
\* read reaches its end.
C24_Terminates ==
    /\ [][/\ pos' >= pos
          /\ LexLess(Variant', Variant)
          /\ Variant'[1] >= 0 /\ Variant'[2] >= 0
          /\ FrameIteration => pos' > pos
          /\ ChunkIteration => (lastSpan'.start = pos /\ lastSpan'.end = pos'
                                /\ pos' >= lastSpan'.start)
          /\ ChunkLoopExit => (chunk_i = frame.chunk_count
                               /\ Len(frame.chunks) = frame.chunk_count
                               /\ frames'[Len(frames')].chunk_count
                                    = Len(frames'[Len(frames')].chunks))]_readVars
    /\ <>(pc = "done" \/ BeyondModel)

\* read has returned after a frame whose chunk count runs past the end of
\* the stream: chunks of size 0 were read without consuming a byte
C24_Witness ==
    /\ pc = "done"
    /\ result = "Ok"
    /\ pos = Len(stream)
    /\ Len(frames) >= 1
    /\ frames[1].chunk_count >= 2
    /\ lastSpan.read /\ lastSpan.size = 0 /\ lastSpan.end = lastSpan.start


(***************************************************************************)
(* C27: parent links after LoadedSprite::load                              *)
(***************************************************************************)
\* the earlier layers (1-based positions) one level above layer i
Above(layers, i) ==
    {j \in 1..(i - 1) : layers[j].child_level = layers[i].child_level - 1}

Latest(S) == CHOOSE j \in S : \A k \in S : k <= j

RECURSIVE Hops(_, _, _)
\* number of parent links followed from layer_index (0-based) until a layer
\* without parent, following at most fuel links; -1 when the fuel runs out
Hops(layers, layer_index, fuel) ==
    IF layers[layer_index + 1].parent_index = NO_PARENT THEN 0
    ELSE IF fuel = 0 \/ layers[layer_index + 1].parent_index >= Len(layers) THEN -1
    ELSE LET rest == Hops(layers, layers[layer_index + 1].parent_index, fuel - 1)
         IN  IF rest < 0 THEN -1 ELSE rest + 1

RECURSIVE ChainName(_, _)
\* the layer's name followed by the names of all its ancestors, no limit
ChainName(layers, layer_index) ==
    IF layers[layer_index + 1].parent_index = NO_PARENT
    THEN layers[layer_index + 1].name
    ELSE layers[layer_index + 1].name \o <<46>>
         \o ChainName(layers, layers[layer_index + 1].parent_index)

RECURSIVE ChainVisible(_, _)
\* the layer and all its ancestors are visible, no limit
ChainVisible(layers, layer_index) ==
    /\ layers[layer_index + 1].visible
    /\ \/ layers[layer_index + 1].parent_index = NO_PARENT
       \/ ChainVisible(layers, layers[layer_index + 1].parent_index)

\* C27: after a successful load every layer's parent_index is NO_PARENT when
\* no earlier layer is exactly one level above it, and otherwise the index of
\* the latest such layer; it is smaller than the layer's own index, a layer
\* of child_level 0 has NO_PARENT, the chain of parents from layer i ends
\* within i links, and layer_name and is_layer_visible give what the
\* unlimited walks give
C27_ParentIndex ==
    sprite.out = "ok" =>
        \A i \in 1..Len(sprite.loaded_layers) :
            LET layers == sprite.loaded_layers
                layer  == layers[i]
            IN  /\ layer.parent_index =
                       IF Above(layers, i) = {} THEN NO_PARENT
                       ELSE Latest(Above(layers, i)) - 1
                /\ layer.parent_index # NO_PARENT => layer.parent_index < i - 1
                /\ layer.child_level = 0 => layer.parent_index = NO_PARENT
                /\ Hops(layers, i - 1, Len(layers)) \in 0..(i - 1)
                /\ layer_name(layers, i - 1) = ChainName(layers, i - 1)
                /\ layer.full_name = Some(ChainName(layers, i - 1))
                /\ is_layer_visible(layers, i - 1) = ChainVisible(layers, i - 1)

\* three layers loaded, each the child of the one before
C27_Witness ==
    /\ sprite.out = "ok"
    /\ Len(sprite.loaded_layers) = 3
    /\ sprite.loaded_layers[1].child_level = 0
    /\ sprite.loaded_layers[2].child_level = 1
    /\ sprite.loaded_layers[3].child_level = 2
    /\ sprite.loaded_layers[1].parent_index = NO_PARENT
    /\ sprite.loaded_layers[2].parent_index = 0
    /\ sprite.loaded_layers[3].parent_index = 1


(***************************************************************************)
(* C28: cels and the layer list                                            *)
(***************************************************************************)
\* C28: in every sprite load returns successfully, each prepared cel's
\* layer_index is smaller than the number of loaded layers (draw indexes
\* loaded_layers with it)
C28_CelLayerInRange ==
    sprite.out = "ok" =>
        \A i \in 1..Len(sprite.loaded_cels) :
            sprite.loaded_cels[i].layer_index < Len(sprite.loaded_layers)


(***************************************************************************)
(* The window loop of ui(): one update and one draw per frame.             *)
(* Positions are kept in halves of a pixel (default_position is a product  *)
(* times 0.5); the camera zoom stays at its initial 1.0, the mouse wheel   *)
(* is not modelled.  A toast's rectangle is the slot draw() gave it: slot  *)
(* k is the k-th toast from the top, 0 the zero-sized default rectangle    *)
(* no point collides with.  The mouse is at slot k (a point inside the     *)
(* rectangle of every toast drawn k-th) or at 0, away from all toasts.     *)
(***************************************************************************)
ACCEPTED_TYPES == <<".ase", ".aseprite">>

\* the lifetimes of the two kinds of error toast
ERROR_TICKS == LOADED_TICKS + 1
OTHER_TICKS == LOADED_TICKS + 2

\* a sprite of one layer
GoodOne ==
    [ext |-> ".ase", exists |-> TRUE,
     bytes |-> HeaderBytes(ASEPRITE_MAGIC_HEADER, 2) \o FrameOf(LevelLayers(<<0>>))]

\* a sprite of two layers and a cel with pixels on the second
GoodTwo ==
    [ext |-> ".aseprite", exists |-> TRUE,
     bytes |-> HeaderBytes(ASEPRITE_MAGIC_HEADER, 2)
               \o FrameOf(LevelLayers(<<0, 1>>) \o <<RawCelOn(1)>>)]

\* three bytes
TooShort == [ext |-> ".ase", exists |-> TRUE, bytes |-> <<1, 2, 3>>]

\* a path that cannot be opened
Missing == [ext |-> ".aseprite", exists |-> FALSE, bytes |-> <<>>]

\* a file of another type
Picture == [ext |-> ".png", exists |-> TRUE, bytes |-> <<137, 80, 78, 71>>]

\* a linked cel and no layer at all
Orphan ==
    [ext |-> ".ase", exists |-> TRUE,
     bytes |-> HeaderBytes(ASEPRITE_MAGIC_HEADER, 2) \o FrameOf(<<LinkedCelOn(0)>>)]

\* the files a path can name
Files ==
    [name \in {"one.ase", "two.aseprite", "short.ase", "missing.aseprite",
               "picture.png", "orphan.ase"} |->
        CASE name = "one.ase"          -> GoodOne
          [] name = "two.aseprite"     -> GoodTwo
          [] name = "short.ase"        -> TooShort
          [] name = "missing.aseprite" -> Missing
          [] name = "picture.png"      -> Picture
          [] OTHER                     -> Orphan]

DropFiles == DOMAIN Files

\* the lists load_dropped_files can return; the empty one: nothing dropped
DropLists == UNION {[1..k -> DropFiles] : k \in 0..MaxDropped}

\* LoadedSprite::load(fname, ..): File::open, aseprite::read, the rest
LoadFile(fname, env) ==
    IF ~Files[fname].exists THEN [out |-> "err", error |-> "Other"]
    ELSE CHOOSE new \in {load(main_data, env) : main_data \in {read(Files[fname].bytes)}} : TRUE

\* the outcome of every load the model can ask for, tabulated
LoadResults == [f \in DropFiles, env \in Environments |-> LoadFile(f, env)] @@ <<>>

\* rl.is_file_extension(fname, ext): the text from the last dot is ext
is_file_extension(fname, ext) == Files[fname].ext = ext

\* Toast::new; `since` is history, not a field of Toast: the updates the
\* toast has lived through since it was made or last had the mouse on it
Toast_new(timer) ==
    [timer |-> timer, start_timer |-> timer, background |-> "BLACK",
     bounds |-> 0, immortal |-> FALSE, since |-> 0]

Toast_new_ex(timer, background) ==
    [Toast_new(timer) EXCEPT !.background = background]

\* self.bounds.check_collision_point_rec(rl.get_mouse_position())
Collides(bounds, mouse) == bounds # 0 /\ bounds = mouse

\* Toast::step
Toast_step(t, mouse, click) ==
    LET ticked == [t EXCEPT !.timer = @ - 1, !.since = @ + 1]
    IN  IF Collides(t.bounds, mouse)
        THEN IF click
             THEN [ticked EXCEPT !.timer = 0, !.immortal = FALSE, !.since = 0]
             ELSE [ticked EXCEPT !.timer = t.start_timer, !.since = 0]
        ELSE ticked

\* mutant: a toast whose timer has reached 0 is kept
is_alive_AtZero(t) == t.immortal \/ t.timer >= 0
\* ExpirableElement::is_alive
is_alive(t) == t.immortal \/ t.timer > 0

\* the Ok arm
OnLoaded(st, new) ==
    [st EXCEPT
        !.layer_list_visible = (st.loaded_sprite = None) \/ st.layer_list_visible,
        !.default_position =
            <<(new.frame_count + GAP) * new.header.pixel_width * new.header.width,
              0 - (Len(new.loaded_layers) + GAP) * new.header.pixel_height * new.header.height>>,
        !.desired_position =
            <<(new.frame_count + GAP) * new.header.pixel_width * new.header.width,
              0 - (Len(new.loaded_layers) + GAP) * new.header.pixel_height * new.header.height>>,
        !.toasts = Append(st.toasts, Toast_new(LOADED_TICKS)),
        !.loaded_sprite = Some(new)]

\* the Err arm
OnError(st, e) ==
    [st EXCEPT !.toasts =
        Append(st.toasts,
               CASE e = "RanOutAtHeader" -> Toast_new_ex(ERROR_TICKS, "MAROON")
                 [] e \in {"HeaderMagicMismatch", "FrameMagicMismatch"} ->
                        Toast_new_ex(ERROR_TICKS, "MAROON")
                 [] OTHER -> Toast_new_ex(OTHER_TICKS, "MAROON"))]

\* mutant: the remaining paths are looked at after a file has loaded
BreaksPath_Never(out) == FALSE
\* break 'path
BreaksPath(out) == out = "ok"

RECURSIVE DropExts(_, _, _, _)
\* for ext in ACCEPTED_TYPES, from the e-th on
DropExts(st, f, e, env) ==
    IF e > Len(ACCEPTED_TYPES) THEN [st |-> st, break |-> FALSE]
    ELSE IF ~is_file_extension(f, ACCEPTED_TYPES[e]) THEN DropExts(st, f, e + 1, env)
    ELSE LET new == LoadResults[f, env]
         IN  CASE new.out = "ok" ->
                    IF BreaksPath(new.out)
                    THEN [st |-> OnLoaded(st, new), break |-> TRUE]
                    ELSE DropExts(OnLoaded(st, new), f, e + 1, env)
               [] new.out = "err" -> DropExts(OnError(st, new.error), f, e + 1, env)
               [] OTHER -> [st |-> [st EXCEPT !.crashed = TRUE], break |-> TRUE]

RECURSIVE DropPaths(_, _, _, _)
\* 'path: for fname in list.paths(), from the i-th on
DropPaths(st, list, i, env) ==
    IF i > Len(list) THEN st
    ELSE LET r == DropExts(st, list[i], 1, env)
         IN  IF r.break THEN r.st ELSE DropPaths(r.st, list, i + 1, env)

\* the fields of UIState the update block works on
UiState ==
    [loaded_sprite |-> loaded_sprite, toasts |-> toasts,
     layer_list_visible |-> layer_list_visible,
     desired_position |-> desired_position,
     default_position |-> default_position, crashed |-> FALSE]

\* the drags with the right button: none, or one pixel right and up
Drags == {<<0, 0>>, <<1, -1>>}

\* a failing texture upload is looked at where it changes the outcome of
\* some load of the update
TextureMatters(dropped, env) ==
    \E i \in 1..Len(dropped) :
        LoadResults[dropped[i], env] # LoadResults[dropped[i], [env EXCEPT !.texture = TRUE]]

Minus(a, b) == <<a[1] - 2 * b[1], a[2] - 2 * b[2]>>

InReach(p, home) ==
    /\ p[1] - home[1] \in (0 - 2 * MaxPan)..(2 * MaxPan)
    /\ p[2] - home[2] \in (0 - 2 * MaxPan)..(2 * MaxPan)

\* another build is looked at where it changes the outcome of some load
BuildMatters(build) ==
    \E fname \in DropFiles, texture \in BOOLEAN :
        LoadResults[fname, [build |-> build, texture |-> texture]]
            # LoadResults[fname, [build |-> NoInput.env.build, texture |-> texture]]

\* the update block of one frame.  Its inputs: the dropped paths, the
\* machine the loads run on (the build is that of the whole run), the mouse
\* over the slot of a toast drawn in the last frame or over none, the left
\* button pressed on a toast, a drag with the right button
Update ==
    /\ phase = "update"
    /\ \E dropped \in DropLists :
          /\ Len(toasts) + Len(dropped) <= MaxToasts
          /\ \E env \in Environments :
                /\ env.build = input.env.build
                /\ env.texture \/ TextureMatters(dropped, env)
                /\ \A i \in 1..Len(dropped) : LoadResults[dropped[i], env].out # "unmodelled"
                /\ \E st \in {DropPaths(UiState, dropped, 1, env)} :
                   \E mouse \in 0..Len(toasts), click \in BOOLEAN, drag \in Drags :
                      /\ click => mouse # 0
                      /\ InReach(Minus(st.desired_position, drag), st.default_position)
                      /\ input' = [dropped |-> dropped, mouse |-> mouse, click |-> click,
                                   drag |-> drag, env |-> env]
                      /\ loaded_sprite' = st.loaded_sprite
                      /\ layer_list_visible' = st.layer_list_visible
                      /\ default_position' = st.default_position
                      /\ IF st.crashed
                         THEN /\ phase' = "crashed"
                              /\ desired_position' = st.desired_position
                              /\ toasts' = st.toasts
                         ELSE /\ phase' = "draw"
                              /\ desired_position' = Minus(st.desired_position, drag)
                              /\ toasts' = SelectSeq([i \in 1..Len(st.toasts) |->
                                                         Toast_step(st.toasts[i], mouse, click)],
                                                     is_alive)
    /\ UNCHANGED <<stream, readVars, sprite>>

\* LoadedSprite::draw indexes loaded_layers with every cel's layer_index
DrawPanics(spr) ==
    \E i \in 1..Len(spr.loaded_cels) :
        spr.loaded_cels[i].layer_index >= Len(spr.loaded_layers)

\* the draw block of one frame: the sprite, the toasts from the top down,
\* the bottom bar with the layer-list button and the recenter label
Draw ==
    /\ phase = "draw"
    /\ IF loaded_sprite # None /\ DrawPanics(loaded_sprite[1])
       THEN /\ phase' = "crashed"
            /\ UNCHANGED <<toasts, layer_list_visible, desired_position>>
       ELSE /\ phase' = "update"
            /\ toasts' = [i \in 1..Len(toasts) |-> [toasts[i] EXCEPT !.bounds = i]]
            /\ \E toggle \in BOOLEAN, recenter \in BOOLEAN :
                  /\ layer_list_visible' =
                        IF loaded_sprite # None /\ toggle
                        THEN ~layer_list_visible ELSE layer_list_visible
                  /\ desired_position' =
                        IF recenter THEN default_position ELSE desired_position
    /\ UNCHANGED <<loaded_sprite, default_position, input>>
    /\ UNCHANGED <<stream, readVars, sprite>>

\* the window just opened
InitUi ==
    /\ stream = <<>>
    /\ pos = 0
    /\ pc = "start"
    /\ result = "Running"
    /\ err = "None"
    /\ site = "none"
    /\ header = NoHeader
    /\ frame_buffer = <<>>
    /\ frames = <<>>
    /\ frame = NoFrame
    /\ chunk_i = 0
    /\ frame_count = 0
    /\ lastSpan = NoSpan
    /\ short = FALSE
    /\ sprite = NotLoaded
    /\ loaded_sprite = None
    /\ toasts = <<>>
    /\ layer_list_visible = FALSE
    /\ desired_position = <<0, 0>>
    /\ default_position = <<0, 0>>
    /\ \E build \in Builds :
          /\ build = NoInput.env.build \/ BuildMatters(build)
          /\ input = [NoInput EXCEPT !.env.build = build]
    /\ phase = "update"

NextUi == Update \/ Draw

SpecUi == InitUi /\ [][NextUi]_vars


(***************************************************************************)
(* C29: the life of a toast                                                *)
(***************************************************************************)
\* an update that ran to its end
UpdateDone == phase = "update" /\ phase' = "draw"

\* the toasts the update works on: those on the list and those it pushed
ToastsBefore == DropPaths(UiState, input'.dropped, 1, input'.env).toasts

\* the mouse of this update is on the toast
Hovered(t) == t.bounds # 0 /\ t.bounds = input'.mouse

\* the toast is still on the list after this update
Stays(t) == IF Hovered(t) THEN ~input'.click ELSE t.timer > 1

\* C29: in every update a toast the mouse is not on loses one tick and is
\* removed exactly when that brings its timer to 0; a toast the mouse is on
\* has its timer back at the start value and stays, unless the left button
\* is pressed, which removes it in that update.  So a toast on the list that
\* had no hover for k updates since it was made with timer n has timer
\* n - k and k < n
C29_ToastLifecycle ==
    /\ toasts = <<>> \/ phase # "update"
    /\ [][/\ UpdateDone =>
               \E stay \in {SelectSeq(ToastsBefore, Stays)} :
                  /\ Len(toasts') = Len(stay)
                  /\ \A i \in 1..Len(stay) :
                        /\ toasts'[i].start_timer = stay[i].start_timer
                        /\ toasts'[i].bounds = stay[i].bounds
                        /\ toasts'[i].timer = IF Hovered(stay[i])
                                              THEN stay[i].start_timer
                                              ELSE stay[i].timer - 1
           /\ \A i \in 1..Len(toasts') :
                  /\ toasts'[i].since < toasts'[i].start_timer
                  /\ toasts'[i].timer = toasts'[i].start_timer - toasts'[i].since
                  /\ toasts'[i].timer > 0]_vars

\* after an update with the left button pressed on the first toast slot:
\* that toast is gone, the toast drawn second is now first and on its last
\* tick after a life without hover
C29_Witness ==
    /\ phase = "draw"
    /\ input.click /\ input.mouse = 1
    /\ Len(toasts) = 1
    /\ toasts[1].bounds = 2
    /\ toasts[1].timer = 1
    /\ toasts[1].since = toasts[1].start_timer - 1


(***************************************************************************)
(* C30: dropped files                                                      *)
(***************************************************************************)
\* the dropped paths of this update that name a file of an accepted type
Accepted(fname) == \E e \in 1..Len(ACCEPTED_TYPES) : Files[fname].ext = ACCEPTED_TYPES[e]

AcceptedPaths == SelectSeq(input'.dropped, Accepted)

\* the position in AcceptedPaths of the first file that loads, 0 if none
FirstLoaded ==
    LET oks == {i \in 1..Len(AcceptedPaths) :
                   LoadResults[AcceptedPaths[i], input'.env].out = "ok"}
    IN  IF oks = {} THEN 0 ELSE CHOOSE i \in oks : \A j \in oks : i <= j

\* the toasts made in this update: no draw has given them a rectangle yet
NotDrawn(t) == t.bounds = 0

\* C30: in an update with dropped paths, every accepted file up to the first
\* one that loads gets exactly one toast, in order: an error toast for each
\* file whose load fails, one success toast for the file that loads, and
\* none for the paths after it.  If no file loads, the loaded sprite, the
\* visibility of the layer list and default_position are as before and
\* desired_position has only moved by the drag of this update; if one
\* loads, it is the loaded sprite, the layer list is visible if no sprite
\* was loaded before and as visible as before otherwise
C30_DroppedFiles ==
    [][UpdateDone =>
        \E paths \in {AcceptedPaths}, made \in {SelectSeq(toasts', NotDrawn)} :
        \E k \in {FirstLoaded} :
        \E n \in {IF k = 0 THEN Len(paths) ELSE k} :
            /\ Len(made) = n
            /\ Len(toasts') - Len(made) <= Len(toasts)
            /\ \A i \in 1..n :
                  \E res \in {LoadResults[paths[i], input'.env]} :
                     IF i = k
                     THEN /\ made[i].background = "BLACK"
                          /\ made[i].start_timer = LOADED_TICKS
                          /\ loaded_sprite' = Some(res)
                     ELSE /\ res.out = "err"
                          /\ made[i].background = "MAROON"
                          /\ made[i].start_timer =
                                IF res.error = "Other" THEN OTHER_TICKS ELSE ERROR_TICKS
            /\ IF k = 0
               THEN /\ loaded_sprite' = loaded_sprite
                    /\ layer_list_visible' = layer_list_visible
                    /\ default_position' = default_position
                    /\ desired_position' = Minus(desired_position, input'.drag)
               ELSE /\ layer_list_visible' = ((loaded_sprite = None) \/ layer_list_visible)
                    /\ desired_position' = Minus(default_position', input'.drag)]_vars

\* after an update with two dropped files, of which the first cannot be
\* opened and the second loads while another sprite was loaded and its
\* layer list hidden: one error toast, one success toast, the new sprite
C30_Witness ==
    /\ phase = "draw"
    /\ input.dropped = <<"missing.aseprite", "one.ase">>
    /\ loaded_sprite = Some(LoadResults["one.ase", input.env])
    /\ ~layer_list_visible
    /\ Len(toasts) = 2
    /\ toasts[1].background = "MAROON" /\ toasts[1].bounds = 0
    /\ toasts[2].background = "BLACK" /\ toasts[2].bounds = 0

====
